---- MODULE Spec2Model ----
(***************************************************************************)
(* A model of the nodus-adk-agents repository: the six A2A agent handlers  *)
(* (calculator, currency, weather, email, hitl_math, google_workspace) as  *)
(* request -> response functions over JSON-RPC envelopes, with the         *)
(* handlers that await an upstream suspended there while others run, and   *)
(* the                                                                     *)
(* AgentPoolManager registry with its mounts and configuration loader.     *)
(***************************************************************************)
EXTENDS Integers, Sequences, FiniteSets, Bags, TLC

VARIABLES
    agent,      \* the agent whose POST /a2a handler served the last request
    request,    \* the HTTP body of the last request
    response,   \* what the handler produced for it
    effects,    \* what the handler did while serving it
    suspended,  \* the bag of handlers waiting at an await for their upstream to answer
    agents,     \* AgentPoolManager.agents: name -> registry entry
    mounts,     \* the routes of AgentPoolManager.app added by mount(), in order
    disk,       \* module path -> what the module's source file does when executed
    loaded,     \* sys.modules: module path -> the loaded module, if any
    config,     \* the configuration file as the load_from_config in progress found it
    last,       \* the pool operation that has just returned, with its return value
    task,       \* the pool call the event loop is executing, and the line it is at
    observed,   \* what the last reader of the pool (a handler, the router) saw
    pending,    \* the action_data the email agent answered "hitl_required" for
    approved,   \* the pending action_data a human has approved
    outbox,     \* the emails simulate_email_send has sent, in order
    reply,      \* the last answer of the email agent's /a2a or /a2a/execute
    counter,    \* A2AClient._request_id of each client
    calls,      \* the A2AClient.call coroutines launched, and the line each is at
    wire        \* the requests the clients have posted, in order

a2aVars == <<agent, request, response, effects, suspended>>
poolVars == <<agents, mounts, disk, loaded, config, last>>
loopVars == <<task, observed>>
hitlVars == <<pending, approved, outbox, reply>>
clientVars == <<counter, calls, wire>>
vars == <<agent, request, response, effects, suspended, agents, mounts, disk, loaded, config, last,
          task, observed, pending, approved, outbox, reply, counter, calls, wire>>

(***************************************************************************)
(* Bounds of the model.                                                    *)
(***************************************************************************)
MaxId == 2
MaxConfigLen == 3
MaxMounts == 2
MaxOutbox == 2
MaxCalls == 4
MaxSuspended == 2

(***************************************************************************)
(* JSON values. Every value is a record [k, n, s]: k is the kind, n the    *)
(* number of an "int", s the text of a "str".  "absent" is a key that is   *)
(* not in the object, "null" is JSON null / Python None.                   *)
(***************************************************************************)
JAbsent == [k |-> "absent", n |-> 0, s |-> ""]
JNull == [k |-> "null", n |-> 0, s |-> ""]
JInt(i) == [k |-> "int", n |-> i, s |-> ""]
JStr(x) == [k |-> "str", n |-> 0, s |-> x]
JBool(b) == [k |-> "bool", n |-> IF b THEN 1 ELSE 0, s |-> ""]
\* A list of strings: n is its length.
JList(x) == [k |-> "list", n |-> Len(x), s |-> "", items |-> x]

\* The decimal text of the integers the model uses, and int(text).
Digits == <<"1", "2", "3", "4", "5", "6", "7", "8", "9">>
IsIntText(x) == \E i \in 1..Len(Digits) : Digits[i] = x
ParseInt(x) == CHOOSE i \in 1..Len(Digits) : Digits[i] = x

\* dict.get(key) and dict.get(key, default) on a JSON object given as a record.
Get(obj, key) == IF key \in DOMAIN obj THEN obj[key] ELSE JNull
GetOr(obj, key, default) == IF key \in DOMAIN obj THEN obj[key] ELSE default

\* Python truthiness of a JSON value ("not x" is ~Truthy(x)).
Truthy(j) ==
    \/ j.k = "str" /\ j.s # ""
    \/ j.k = "int" /\ j.n # 0
    \/ j.k \in {"list", "bool"} /\ j.n # 0

\* str(x) as an f-string interpolates it.
PyStr(j) ==
    CASE j.k = "str" -> j.s
      [] j.k = "int" -> Digits[j.n]
      [] j.k = "list" -> "[...]"
      [] j.k = "bool" -> IF j.n = 1 THEN "True" ELSE "False"
      [] OTHER -> "None"

IsNull(x) == x.k \in {"absent", "null"}

(***************************************************************************)
(* Responses.  An envelope carries result, error and id; "validation" is   *)
(* FastAPI's 422 answer when the body does not fit the handler's pydantic  *)
(* model (the handler is not entered); "raised" is an exception that left  *)
(* the handler.                                                            *)
(***************************************************************************)
NoResult == [k |-> "absent"]
EmptyDict == [k |-> "emptydict"]
Dict(v) == [k |-> "dict", v |-> v]
NoError == [k |-> "absent"]
NullError == [k |-> "null"]
Error(code, message) == [k |-> "dict", code |-> code, message |-> message]

Envelope(status, result, error, id) ==
    [kind |-> "envelope", status |-> status, result |-> result, error |-> error, id |-> id]
ValidationError ==
    [kind |-> "validation", status |-> 422, result |-> NoResult, error |-> NoError, id |-> JAbsent]
Raised(text) ==
    [kind |-> "raised", status |-> 500, result |-> NoResult, error |-> NoError, id |-> JAbsent,
     text |-> text]

\* What a handler did: whether it evaluated or computed something, how many
\* outbound requests it issued, whether it ran the LLM agent, whether it sent an
\* email, whether the upstream service or runtime failed, the class and text
\* of the exception raised while serving ("none" when none was), the callables
\* eval() called, and whether eval() was called at all.
NoEffects ==
    [computed |-> FALSE, outbound |-> 0, llm |-> FALSE, sent |-> FALSE, failed |-> FALSE,
     exc |-> "none", text |-> <<>>, invoked |-> {}, evaluated |-> FALSE]

(***************************************************************************)
(* Python exceptions.  A computation's outcome is a record: exc = "none"   *)
(* with a value, or the class of the exception raised and str(e), the      *)
(* text being a sequence of parts.                                         *)
(***************************************************************************)
Ok(v) == [exc |-> "none", text |-> <<>>, val |-> v]
Raise(cls, text) == [exc |-> cls, text |-> text, val |-> 0]

\* float(x) of a JSON value; numbers are kept in hundredths.
PyFloat(j) ==
    CASE j.k = "int" -> Ok(100 * j.n)
      [] j.k = "str" /\ IsIntText(j.s) -> Ok(100 * ParseInt(j.s))
      [] j.k = "str" -> Raise("ValueError", <<"could not convert string to float">>)
      [] OTHER -> Raise("TypeError", <<"float() argument must be a string or a real number, not 'NoneType'">>)

(***************************************************************************)
(* The calculator's expression evaluator.  An expression string is given   *)
(* by its tokens (Lex); numbers are in hundredths.                         *)
(***************************************************************************)
\* The radical sign U+221A, and the three characters U+00E2 U+02C6 U+0161 the
\* source has in the first argument of its second replace().
Radical == "U+221A"
RadicalLiteral == "U+00E2 U+02C6 U+0161"

Expressions ==
    {"2 + 2", "15% of 200", "2% of 3", "15% of 2 ^ 3", "sqrt(144)", "U+221A(144)",
     "U+00E2 U+02C6 U+0161(144)", "2 ^ 3", "__import__('os')", "0 and __import__('os')",
     "1 and __import__('os')", "().__class__.__base__.__subclasses__()", "1 / 0"}

Lex(x) ==
    CASE x = "2 + 2" -> <<"2", "+", "2">>
      [] x = "15% of 200" -> <<"15", "%", " of ", "200">>
      [] x = "2% of 3" -> <<"2", "%", " of ", "3">>
      [] x = "15% of 2 ^ 3" -> <<"15", "%", " of ", "2", "^", "3">>
      [] x = "sqrt(144)" -> <<"sqrt", "(", "144", ")">>
      [] x = "U+221A(144)" -> <<Radical, "(", "144", ")">>
      [] x = "U+00E2 U+02C6 U+0161(144)" -> <<RadicalLiteral, "(", "144", ")">>
      [] x = "2 ^ 3" -> <<"2", "^", "3">>
      [] x = "__import__('os')" -> <<"__import__", "(", "'os'", ")">>
      [] x = "0 and __import__('os')" -> <<"0", "and", "__import__", "(", "'os'", ")">>
      [] x = "1 and __import__('os')" -> <<"1", "and", "__import__", "(", "'os'", ")">>
      [] x = "().__class__.__base__.__subclasses__()" ->
            <<"(", ")", ".", "__class__", ".", "__base__", ".", "__subclasses__", "(", ")">>
      [] x = "1 / 0" -> <<"1", "/", "0">>
      [] OTHER -> <<x>>

NumberTokens == {"0", "1", "2", "3", "15", "144", "200"}
TokenValue(t) ==
    CASE t = "0" -> 0 [] t = "1" -> 1 [] t = "2" -> 2 [] t = "3" -> 3
      [] t = "15" -> 15 [] t = "144" -> 144 [] t = "200" -> 200

\* safe_dict: the names an expression may use.
SafeNames == {"sqrt", "pow", "abs", "round", "pi", "e", "sin", "cos", "tan", "log", "log10"}

\* str.replace(old, new) on tokens.
Replace(toks, old, new) == [i \in DOMAIN toks |-> IF toks[i] = old THEN new ELSE toks[i]]
Contains(toks, t) == \E i \in DOMAIN toks : toks[i] = t
Without(toks, t) == SelectSeq(toks, LAMBDA x : x # t)

RECURSIVE Power(_, _)
Power(b, n) == IF n = 0 THEN 1 ELSE b * Power(b, n - 1)
IsSquare(n) == \E r \in 0..n : r * r = n
Sqrt(n) == CHOOSE r \in 0..n : r * r = n

\* An attribute chain on the empty tuple that ends in a call: ().a.b.c()
AttributeCall(toks) ==
    /\ Len(toks) >= 6
    /\ toks[1] = "(" /\ toks[2] = ")" /\ toks[3] = "."
    /\ toks[Len(toks) - 1] = "(" /\ toks[Len(toks)] = ")"

\* eval(expression, {"__builtins__": {}}, safe_dict) followed by float(result),
\* for an expression without `and`: the shapes the model evaluates; anything
\* else raises.
EvalOperand(toks) ==
    IF Len(toks) = 1 /\ toks[1] \in NumberTokens THEN Ok(100 * TokenValue(toks[1]))
    ELSE IF Len(toks) = 3 /\ toks[1] \in NumberTokens /\ toks[3] \in NumberTokens THEN
        LET a == TokenValue(toks[1])
            b == TokenValue(toks[3])
        IN  CASE toks[2] = "+" -> Ok(100 * (a + b))
              [] toks[2] = "*" -> Ok(100 * (a * b))
              [] toks[2] = "**" -> Ok(100 * Power(a, b))
              [] toks[2] = "/" /\ b # 0 /\ (100 * a) % b = 0 -> Ok((100 * a) \div b)
              [] toks[2] = "/" /\ b = 0 -> Raise("ZeroDivisionError", <<"division by zero">>)
              [] OTHER -> Raise("SyntaxError", <<"invalid syntax">>)
    ELSE IF AttributeCall(toks) THEN
        Raise("TypeError", <<"float() argument must be a string or a real number, not 'list'">>)
    ELSE IF Len(toks) = 4 /\ toks[2] = "(" /\ toks[4] = ")" THEN
        IF toks[1] \in {Radical, RadicalLiteral}
        THEN Raise("SyntaxError", <<"invalid character '", toks[1], "'">>)
        ELSE IF toks[1] \notin SafeNames
        THEN Raise("NameError", <<"name '", toks[1], "' is not defined">>)
        ELSE IF toks[3] \notin NumberTokens THEN Raise("SyntaxError", <<"invalid syntax">>)
        ELSE IF toks[1] = "sqrt" /\ IsSquare(TokenValue(toks[3]))
             THEN Ok(100 * Sqrt(TokenValue(toks[3])))
        ELSE IF toks[1] = "abs" THEN Ok(100 * TokenValue(toks[3]))
        ELSE Raise("TypeError", <<"unsupported call">>)
    ELSE Raise("SyntaxError", <<"invalid syntax">>)

\* The operand of `<number> and <operand>` that Python evaluates: the number
\* itself when it is zero, the right operand otherwise.
Evaluated(toks) ==
    IF Len(toks) > 2 /\ toks[1] \in NumberTokens /\ toks[2] = "and"
    THEN IF TokenValue(toks[1]) = 0 THEN <<toks[1]>> ELSE SubSeq(toks, 3, Len(toks))
    ELSE toks

Eval(toks) == EvalOperand(Evaluated(toks))

\* The names the expression refers to: identifiers that are not attributes.
NamesIn(toks) ==
    {toks[i] : i \in {j \in DOMAIN toks :
        /\ toks[j] \notin NumberTokens \cup {"(", ")", ".", "+", "*", "**", "/", "and", "'os'",
                                             "%", " of ", "^", Radical, RadicalLiteral}
        /\ (j > 1 => toks[j - 1] # ".")}}

\* The callables eval() calls while it evaluates the expression.
Invoked(toks) ==
    LET part == Evaluated(toks)
    IN  IF AttributeCall(part) THEN {part[Len(part) - 2]}
        ELSE IF Len(part) = 4 /\ part[2] = "(" /\ part[4] = ")" /\ part[1] \in SafeNames
                /\ part[3] \in NumberTokens
        THEN {part[1]}
        ELSE {}

\* The parts of expression.split(" of ").
SplitOf(toks) ==
    LET cut == {i \in DOMAIN toks : toks[i] = " of "}
    IN  IF Cardinality(cut) # 1 THEN <<toks>>
        ELSE LET i == CHOOSE j \in cut : TRUE
             IN  <<SubSeq(toks, 1, i - 1), SubSeq(toks, i + 1, Len(toks))>>

\* float(text.strip()) of a token sequence.
FloatOfTokens(toks) ==
    IF Len(toks) = 1 /\ toks[1] \in NumberTokens THEN Ok(100 * TokenValue(toks[1]))
    ELSE Raise("ValueError", <<"could not convert string to float: ">> \o toks)

\* The expression after the two replace() calls.
Substituted(expression) == Replace(Replace(Lex(expression), "^", "**"), RadicalLiteral, "sqrt")

\* The test of the percentage branch: "%" and " of " occur and split gives two parts.
PercentPath(toks) == Contains(toks, "%") /\ Contains(toks, " of ") /\ Len(SplitOf(toks)) = 2

safe_eval_expression(expression) ==
    LET toks == Substituted(expression)
        parts == SplitOf(toks)
    IN  IF PercentPath(toks) THEN
            LET percentage == FloatOfTokens(Without(parts[1], "%"))
                value == FloatOfTokens(parts[2])
            IN  IF percentage.exc # "none" THEN percentage
                ELSE IF value.exc # "none" THEN value
                ELSE Ok((percentage.val * value.val) \div 10000)
        ELSE LET r == Eval(toks)
             IN  IF r.exc = "none" THEN r
                 ELSE Raise("ValueError", <<"Invalid expression: ">> \o r.text)

(***************************************************************************)
(* Request bodies.  A body is not JSON at all, JSON that is not an object, *)
(* or an object with the envelope's four keys, each present or not.        *)
(***************************************************************************)
PAbsent == [k |-> "absent"]
PList == [k |-> "list"]
PDict(v) == [k |-> "dict", v |-> v]
NoParams == <<>>

BadJson == [kind |-> "badjson"]
NonObject == [kind |-> "nonobject"]
Object(jsonrpc, method, params, id) ==
    [kind |-> "object", jsonrpc |-> jsonrpc, method |-> method, params |-> params, id |-> id]

Versions == {JStr("2.0"), JStr("1.0"), JAbsent}
Ids == {JAbsent, JNull, JStr("abc")}
           \cup {JInt(i) : i \in 1..MaxId} \cup {JStr(Digits[i]) : i \in 1..MaxId}

Bodies(methods, params) ==
    {BadJson, NonObject}
        \cup {Object(v, m, p, i) : v \in Versions, m \in methods \cup {JStr("bogus"), JAbsent},
                                   p \in params \cup {PAbsent, PList}, i \in Ids}

\* A handler suspended at an await: the application it belongs to and the
\* body it read, which its frame keeps until it answers.  Two requests with
\* the same body may be in flight at once: the frames are a bag.
Frame(app, body) == [agent |-> app, body |-> body]
Suspend(frame) == suspended (+) SetToBag({frame})
Resume(frame) == suspended (-) SetToBag({frame})

\* The body A2AClient.call posts: jsonrpc "2.0", a method name, a dict of
\* params and the integer id the client counted.
ClientFormed(body) ==
    /\ body.kind = "object"
    /\ body.jsonrpc = JStr("2.0")
    /\ body.method.k = "str"
    /\ body.params.k = "dict"
    /\ body.id.k = "int"

(***************************************************************************)
(* Calculator agent (a2a_calculator_agent.py).                             *)
(***************************************************************************)
CalculatorMethods == {JStr("calculate"), JStr("percentage")}
CalculatorParams ==
    {PDict(NoParams)}
        \cup {PDict([expression |-> JStr(x)]) : x \in Expressions \cup {""}}
        \cup {PDict([expression |-> JInt(5)])}
        \cup {PDict([percentage |-> JInt(2), of_value |-> JInt(3)]),
              PDict([percentage |-> JStr("abc"), of_value |-> JInt(3)]),
              PDict([percentage |-> JInt(2)]), PDict([of_value |-> JInt(3)])}

\* pydantic's validation of the body against A2ARequest (jsonrpc: str = "2.0",
\* method: str, params: dict, id: int), in its default lax mode.
A2ARequestValid(body) ==
    /\ body.kind = "object"
    /\ body.jsonrpc.k \in {"str", "absent"}
    /\ body.method.k = "str"
    /\ body.params.k = "dict"
    /\ \/ body.id.k = "int"
       \/ body.id.k = "str" /\ IsIntText(body.id.s)

A2ARequest(body) ==
    [jsonrpc |-> IF body.jsonrpc.k = "absent" THEN "2.0" ELSE body.jsonrpc.s,
     method |-> body.method.s,
     params |-> body.params.v,
     id |-> IF body.id.k = "int" THEN body.id ELSE JInt(ParseInt(body.id.s))]

\* A2AResponse(id=..., result=...) and A2AResponse(id=..., error=...): the model's
\* defaults are result = {} and error = None.
A2AResult(id, result) == Envelope(200, Dict(result), NullError, id)
A2AError(id, code, message) == Envelope(200, EmptyDict, Error(code, message), id)

\* The try block of the calculator's handle_a2a_request: the response it returns,
\* or the exception it raises.
CalculatorTry(req) ==
    IF req.method = "calculate" THEN
        LET expression == Get(req.params, "expression")
        IN  IF ~Truthy(expression)
            THEN Raise("ValueError", <<"Expression parameter is required">>)
            ELSE IF expression.k # "str"
            THEN Raise("AttributeError", <<"object has no attribute 'replace'">>)
            ELSE LET result == safe_eval_expression(expression.s)
                 IN  IF result.exc # "none" THEN result
                     ELSE Ok(A2AResult(req.id, [expression |-> <<expression.s>>,
                                                result |-> result.val]))
    ELSE IF req.method = "percentage" THEN
        LET percentage == PyFloat(Get(req.params, "percentage"))
            of_value == PyFloat(Get(req.params, "of_value"))
        IN  IF percentage.exc # "none" THEN percentage
            ELSE IF of_value.exc # "none" THEN of_value
            ELSE Ok(A2AResult(req.id,
                     [expression |-> <<percentage.val, "% of ", of_value.val>>,
                      result |-> (percentage.val * of_value.val) \div 10000]))
    ELSE Raise("HTTPException", <<"404: Method not found">>)

\* Whether the calculator's try block evaluates or computes anything.
CalculatorComputes(req) ==
    \/ /\ req.method = "calculate"
       /\ Truthy(Get(req.params, "expression"))
       /\ Get(req.params, "expression").k = "str"
    \/ /\ req.method = "percentage"
       /\ PyFloat(Get(req.params, "percentage")).exc = "none"
       /\ PyFloat(Get(req.params, "of_value")).exc = "none"

\* Whether the request makes safe_eval_expression call eval().
CalculatorEvaluates(req) ==
    /\ req.method = "calculate"
    /\ Truthy(Get(req.params, "expression"))
    /\ Get(req.params, "expression").k = "str"
    /\ ~PercentPath(Substituted(Get(req.params, "expression").s))

\* The except clauses of the calculator's handler.
CalculatorExcept(req, out) ==
    IF out.exc = "none" THEN out.val
    ELSE IF out.exc = "ValueError" THEN A2AError(req.id, -32000, out.text)
    ELSE A2AError(req.id, -32002, <<"Unexpected error: ">> \o out.text)

CalculatorResponse(body) ==
    IF ~A2ARequestValid(body) THEN ValidationError
    ELSE CalculatorExcept(A2ARequest(body), CalculatorTry(A2ARequest(body)))

CalculatorEffects(body) ==
    IF ~A2ARequestValid(body) THEN NoEffects
    ELSE [NoEffects EXCEPT !.computed = CalculatorComputes(A2ARequest(body)),
                           !.exc = CalculatorTry(A2ARequest(body)).exc,
                           !.text = CalculatorTry(A2ARequest(body)).text,
                           !.evaluated = CalculatorEvaluates(A2ARequest(body)),
                           !.invoked = IF CalculatorEvaluates(A2ARequest(body))
                                       THEN Invoked(Substituted(
                                                A2ARequest(body).params["expression"].s))
                                       ELSE {}]

\* The handler serves `body`: it has no await after reading the request.
ServeCalculator(body) ==
    /\ agent' = "calculator"
    /\ request' = body
    /\ response' = CalculatorResponse(body)
    /\ effects' = CalculatorEffects(body)
    /\ UNCHANGED <<suspended, poolVars, loopVars, hitlVars, clientVars>>

HandleCalculator ==
    /\ agent = "idle"
    /\ \E body \in Bodies(CalculatorMethods, CalculatorParams) : ServeCalculator(body)

(***************************************************************************)
(* Email agent (a2a_email_agent.py).                                       *)
(***************************************************************************)
EmailMethods == {JStr("send_email"), JStr("check_inbox")}
EmailParams ==
    {PDict(NoParams),
     PDict([to |-> JStr("a@x"), subject |-> JStr("hi"), body |-> JStr("text")]),
     PDict([to |-> JStr("a@x"), subject |-> JStr("hi"), body |-> JStr("text"),
            cc |-> JList(<<"c@x">>)]),
     PDict([to |-> JStr("a@x"), subject |-> JStr("hi")]),
     PDict([to |-> JStr(""), subject |-> JStr("hi"), body |-> JStr("text")]),
     PDict([to |-> JStr("a@x"), subject |-> JStr("hi"), body |-> JInt(5)]),
     PDict([limit |-> JInt(1)]),
     PDict([limit |-> JStr("abc")]),
     PDict([unread_only |-> JBool(FALSE)])}

\* The simulated mailbox of simulate_check_inbox.
Inbox ==
    <<[id |-> "email_001", unread |-> TRUE],
      [id |-> "email_002", unread |-> TRUE],
      [id |-> "email_003", unread |-> FALSE]>>

Min(a, b) == IF a < b THEN a ELSE b

simulate_check_inbox(unread_only, limit) ==
    LET emails == IF Truthy(unread_only) THEN SelectSeq(Inbox, LAMBDA e : e.unread) ELSE Inbox
    IN  IF limit.k \notin {"int", "null"}
        THEN Raise("TypeError", <<"slice indices must be integers or None">>)
        ELSE Ok([emails |-> IF limit.k = "null" THEN emails
                            ELSE SubSeq(emails, 1, Min(limit.n, Len(emails))),
                 total_count |-> Len(emails),
                 unread_count |-> Len(SelectSeq(emails, LAMBDA e : e.unread))])

\* A send_email that asks for the confirmation without testing to, subject and body.
EmailTryUnchecked(req) ==
    IF req.method = "send_email"
    THEN Ok(A2AResult(req.id,
             [status |-> "hitl_required",
              action_type |-> "send_email",
              action_data |-> [to |-> Get(req.params, "to"),
                               subject |-> Get(req.params, "subject"),
                               body |-> Get(req.params, "body"),
                               cc |-> GetOr(req.params, "cc", JList(<<>>)),
                               bcc |-> GetOr(req.params, "bcc", JList(<<>>))],
              question |-> <<>>]))
    ELSE Ok(A2AError(req.id, -32601, <<"Method not found: ", req.method>>))

\* The try block of the email agent's handle_a2a_request.
EmailTry(req) ==
    IF req.method = "send_email" THEN
        LET to == Get(req.params, "to")
            subject == Get(req.params, "subject")
            body == Get(req.params, "body")
            cc == GetOr(req.params, "cc", JList(<<>>))
            bcc == GetOr(req.params, "bcc", JList(<<>>))
        IN  IF ~Truthy(to) \/ ~Truthy(subject) \/ ~Truthy(body)
            THEN Ok(A2AError(req.id, -32602,
                             <<"Missing required parameters: to, subject, body">>))
            ELSE IF body.k \notin {"str", "list"}
            THEN Raise("TypeError", <<"object has no len()">>)
            ELSE Ok(A2AResult(req.id,
                     [status |-> "hitl_required",
                      action_type |-> "send_email",
                      action_data |-> [to |-> to, subject |-> subject, body |-> body,
                                       cc |-> cc, bcc |-> bcc],
                      question |-> <<"Do you want to send an email to ", PyStr(to),
                                     " with subject '", PyStr(subject), "'?">>]))
    ELSE IF req.method = "check_inbox" THEN
        LET inbox_data == simulate_check_inbox(GetOr(req.params, "unread_only", JBool(TRUE)),
                                               GetOr(req.params, "limit", JInt(10)))
        IN  IF inbox_data.exc # "none" THEN inbox_data
            ELSE Ok(A2AResult(req.id, inbox_data.val))
    ELSE Ok(A2AError(req.id, -32601, <<"Method not found: ", req.method>>))

\* The except clause of the email agent's handler.
EmailExcept(req, out) ==
    IF out.exc = "none" THEN out.val
    ELSE A2AError(req.id, -32000, <<"Internal error: ">> \o out.text)

EmailResponse(body) ==
    IF ~A2ARequestValid(body) THEN ValidationError
    ELSE EmailExcept(A2ARequest(body), EmailTry(A2ARequest(body)))

\* The handler reads the simulated inbox for check_inbox and never calls
\* simulate_email_send.
EmailEffects(body) ==
    IF ~A2ARequestValid(body) THEN NoEffects
    ELSE [NoEffects EXCEPT !.computed = (body.method.s = "check_inbox"),
                           !.exc = EmailTry(A2ARequest(body)).exc,
                           !.text = EmailTry(A2ARequest(body)).text]

\* The handler serves `body`: it has no await after reading the request.
ServeEmail(body) ==
    /\ agent' = "email"
    /\ request' = body
    /\ response' = EmailResponse(body)
    /\ effects' = EmailEffects(body)
    /\ UNCHANGED <<suspended, poolVars, loopVars, hitlVars, clientVars>>

HandleEmail ==
    /\ agent = "idle"
    /\ \E body \in Bodies(EmailMethods, EmailParams) : ServeEmail(body)

(***************************************************************************)
(* Handlers that read the body themselves (request.json()).                *)
(***************************************************************************)
\* body.get(key) and body.get(key, default) of an envelope key.
BodyGet(j) == IF j.k = "absent" THEN JNull ELSE j
BodyGetOr(j, default) == IF j.k = "absent" THEN default ELSE j
\* body.get("params", {})
BodyParams(body) == IF body.params.k = "absent" THEN PDict(NoParams) ELSE body.params

\* JSONResponse of an envelope without an "error" key, and of one without a
\* "result" key.
JsonResult(status, id, result) == Envelope(status, Dict(result), NoError, id)
JsonError(status, id, code, message) == Envelope(status, NoResult, Error(code, message), id)

(***************************************************************************)
(* Currency agent (a2a_currency_agent.py).                                 *)
(***************************************************************************)
SUPPORTED_CURRENCIES ==
    {"EUR", "USD", "GBP", "JPY", "CHF", "CAD", "AUD", "CNY", "INR", "BRL",
     "MXN", "ZAR", "SEK", "NOK", "DKK", "PLN", "CZK", "HUF", "RON", "BGN",
     "HRK", "ISK", "TRY", "RUB", "KRW", "HKD", "SGD", "NZD", "THB", "MYR"}

\* str.upper() on the currency codes of the model.
Upper(x) ==
    CASE x = "eur" -> "EUR" [] x = "usd" -> "USD" [] x = "gbp" -> "GBP" [] x = "xxx" -> "XXX"
      [] OTHER -> x

\* What the exchange-rate API answers to one GET: a failure (the request raises,
\* times out or is not 2xx), or a table giving `rate` for the codes of `codes`.
Upstreams ==
    {[ok |-> FALSE, codes |-> {}, rate |-> 0]}
        \cup {[ok |-> TRUE, codes |-> c, rate |-> r] :
                 c \in {{"USD", "GBP"}, {"GBP"}}, r \in {2, 3}}

CurrencyMethods == {JStr("convert"), JStr("convert_multiple"), JStr("supported_currencies")}
CurrencyParams ==
    {PDict(NoParams),
     PDict([from_currency |-> JStr("eur"), to_currency |-> JStr("USD"), amount |-> JInt(5)]),
     PDict([from_currency |-> JStr("XXX"), to_currency |-> JStr("USD")]),
     PDict([from_currency |-> JStr("EUR"), to_currency |-> JStr("xxx")]),
     PDict([from_currency |-> JInt(5)]),
     PDict([from_currency |-> JStr("EUR"), to_currencies |-> JList(<<"usd", "XXX">>)]),
     PDict([from_currency |-> JStr("XXX"), to_currencies |-> JList(<<"USD">>)])}

\* A conversion that reports the amount as the converted amount.
get_exchange_rate_unscaled(from_currency, to_currency, amount, up) ==
    IF from_currency.k # "str" \/ to_currency.k # "str"
    THEN Raise("AttributeError", <<"object has no attribute 'upper'">>)
    ELSE IF ~up.ok THEN Ok([error |-> <<"Failed to fetch exchange rate: ", "upstream">>])
    ELSE IF amount.k # "int"
    THEN Ok([error |-> <<"Failed to fetch exchange rate: ", "TypeError">>])
    ELSE Ok([from_currency |-> Upper(from_currency.s), to_currency |-> Upper(to_currency.s),
             amount |-> amount.n, rate |-> up.rate, converted_amount |-> amount.n])

\* get_exchange_rate(from_currency, to_currency, amount) with the API answering `up`.
get_exchange_rate(from_currency, to_currency, amount, up) ==
    IF from_currency.k # "str" \/ to_currency.k # "str"
    THEN Raise("AttributeError", <<"object has no attribute 'upper'">>)
    ELSE LET from == Upper(from_currency.s)
             to == Upper(to_currency.s)
         IN  IF from \notin SUPPORTED_CURRENCIES
             THEN Ok([error |-> <<"Currency '", from, "' not supported">>])
             ELSE IF to \notin SUPPORTED_CURRENCIES
             THEN Ok([error |-> <<"Currency '", to, "' not supported">>])
             ELSE IF ~up.ok
             THEN Ok([error |-> <<"Failed to fetch exchange rate: ", "upstream">>])
             ELSE IF to \notin up.codes
             THEN Ok([error |-> <<"Currency '", to, "' not found in rates">>])
             ELSE IF amount.k # "int"
             THEN Ok([error |-> <<"Failed to fetch exchange rate: ", "TypeError">>])
             ELSE Ok([from_currency |-> from, to_currency |-> to, amount |-> amount.n,
                      rate |-> up.rate, converted_amount |-> amount.n * up.rate])

\* The outbound requests get_exchange_rate issues.
ExchangeRateRequests(from_currency, to_currency) ==
    IF /\ from_currency.k = "str" /\ to_currency.k = "str"
       /\ Upper(from_currency.s) \in SUPPORTED_CURRENCIES
       /\ Upper(to_currency.s) \in SUPPORTED_CURRENCIES
    THEN 1 ELSE 0

\* convert_multiple(from_currency, to_currencies, amount) with the API answering `up`.
convert_multiple(from_currency, to_currencies, amount, up) ==
    IF from_currency.k # "str"
    THEN Raise("AttributeError", <<"object has no attribute 'upper'">>)
    ELSE IF to_currencies.k # "list"
    THEN Raise("TypeError", <<"object is not iterable">>)
    ELSE LET from == Upper(from_currency.s)
             tos == [i \in DOMAIN to_currencies.items |-> Upper(to_currencies.items[i])]
         IN  IF ~up.ok THEN Ok([error |-> <<"Failed to convert: ", "upstream">>])
             ELSE IF amount.k # "int" /\ \E i \in DOMAIN tos : tos[i] \in up.codes
             THEN Ok([error |-> <<"Failed to convert: ", "TypeError">>])
             ELSE Ok([from_currency |-> from, amount |-> amount.n,
                      conversions |->
                          [i \in DOMAIN tos |->
                              IF tos[i] \in up.codes
                              THEN [to_currency |-> tos[i], rate |-> up.rate,
                                    converted_amount |-> amount.n * up.rate]
                              ELSE [to_currency |-> tos[i],
                                    error |-> <<"Currency '", tos[i], "' not found">>]]])

\* One outbound request for each target currency.
ConvertMultipleRequestsPerTarget(from_currency, to_currencies) ==
    IF from_currency.k = "str" /\ to_currencies.k = "list" THEN Len(to_currencies.items) ELSE 0

\* The outbound requests convert_multiple issues.
ConvertMultipleRequests(from_currency, to_currencies) ==
    IF from_currency.k = "str" /\ to_currencies.k = "list" THEN 1 ELSE 0

\* The try block of the currency agent's handle_a2a_request, after request.json().
CurrencyTry(body, up) ==
    IF body.kind = "badjson" THEN Raise("JSONDecodeError", <<"Expecting value">>)
    ELSE IF body.kind = "nonobject"
    THEN Raise("AttributeError", <<"'list' object has no attribute 'get'">>)
    ELSE IF BodyGet(body.jsonrpc).k # "str" \/ BodyGet(body.jsonrpc).s # "2.0"
    THEN Ok(JsonError(400, BodyGet(body.id), -32600, <<"Invalid Request">>))
    ELSE
        LET method == BodyGet(body.method)
            params == BodyParams(body)
            request_id == BodyGet(body.id)
        IN  IF method.k = "str" /\ method.s \in {"convert", "convert_multiple"}
               /\ params.k # "dict"
            THEN Raise("AttributeError", <<"'list' object has no attribute 'get'">>)
            ELSE IF method.k = "str" /\ method.s = "convert" THEN
                LET result == get_exchange_rate(
                                  GetOr(params.v, "from_currency", JStr("EUR")),
                                  GetOr(params.v, "to_currency", JStr("USD")),
                                  GetOr(params.v, "amount", JInt(1)), up)
                IN  IF result.exc # "none" THEN result
                    ELSE Ok(JsonResult(200, request_id, result.val))
            ELSE IF method.k = "str" /\ method.s = "convert_multiple" THEN
                LET result == convert_multiple(
                                  GetOr(params.v, "from_currency", JStr("EUR")),
                                  GetOr(params.v, "to_currencies", JList(<<"USD", "GBP">>)),
                                  GetOr(params.v, "amount", JInt(1)), up)
                IN  IF result.exc # "none" THEN result
                    ELSE Ok(JsonResult(200, request_id, result.val))
            ELSE IF method.k = "str" /\ method.s = "supported_currencies"
            THEN Ok(JsonResult(200, request_id,
                               [currencies |-> SUPPORTED_CURRENCIES,
                                count |-> Cardinality(SUPPORTED_CURRENCIES)]))
            ELSE Ok(JsonError(404, request_id, -32601,
                              <<"Method not found: ", PyStr(method)>>))

\* The except clause shared by the currency and weather handlers: the id is
\* body.get("id") when request.json() returned, else None.
JsonRpcExcept(body, out) ==
    IF out.exc = "none" THEN out.val
    ELSE IF body.kind = "badjson"
    THEN JsonError(500, JNull, -32603, <<"Internal error: ">> \o out.text)
    ELSE IF body.kind = "nonobject"
    THEN Raised(<<"'list' object has no attribute 'get'">>)
    ELSE JsonError(500, BodyGet(body.id), -32603, <<"Internal error: ">> \o out.text)

CurrencyResponse(body, up) == JsonRpcExcept(body, CurrencyTry(body, up))

CurrencyRequests(body) ==
    IF body.kind # "object" \/ BodyGet(body.jsonrpc).k # "str"
       \/ BodyGet(body.jsonrpc).s # "2.0" \/ BodyParams(body).k # "dict"
       \/ body.method.k # "str"
    THEN 0
    ELSE IF body.method.s = "convert"
    THEN ExchangeRateRequests(GetOr(BodyParams(body).v, "from_currency", JStr("EUR")),
                              GetOr(BodyParams(body).v, "to_currency", JStr("USD")))
    ELSE IF body.method.s = "convert_multiple"
    THEN ConvertMultipleRequests(
             GetOr(BodyParams(body).v, "from_currency", JStr("EUR")),
             GetOr(BodyParams(body).v, "to_currencies", JList(<<"USD", "GBP">>)))
    ELSE 0

CurrencyEffects(body, up) ==
    [NoEffects EXCEPT !.outbound = CurrencyRequests(body),
                      !.failed = CurrencyRequests(body) > 0 /\ ~up.ok,
                      !.exc = CurrencyTry(body, up).exc,
                      !.text = CurrencyTry(body, up).text]

\* The handler from the request to its first await on the API, or to its
\* answer when it issues no request: at `await client.get(...)` the GET has
\* been issued and the coroutine is suspended until the API answers.
ServeCurrency(body) ==
    /\ IF CurrencyRequests(body) > 0
       THEN /\ BagCardinality(suspended) < MaxSuspended
            /\ suspended' = Suspend(Frame("currency", body))
            /\ UNCHANGED <<agent, request, response, effects>>
       ELSE \E up \in Upstreams :
            /\ agent' = "currency"
            /\ request' = body
            /\ response' = CurrencyResponse(body, up)
            /\ effects' = CurrencyEffects(body, up)
            /\ UNCHANGED suspended
    /\ UNCHANGED <<poolVars, loopVars, hitlVars, clientVars>>

HandleCurrency ==
    /\ agent = "idle"
    /\ \E body \in Bodies(CurrencyMethods, CurrencyParams) : ServeCurrency(body)

\* The API answers `up` to a suspended handler's GET (or the GET fails), and
\* the handler runs from its await to its answer.
ResumeCurrency ==
    /\ agent = "idle"
    /\ \E f \in BagToSet(suspended), up \in Upstreams :
        /\ f.agent = "currency"
        /\ suspended' = Resume(f)
        /\ agent' = "currency"
        /\ request' = f.body
        /\ response' = CurrencyResponse(f.body, up)
        /\ effects' = CurrencyEffects(f.body, up)
    /\ UNCHANGED <<poolVars, loopVars, hitlVars, clientVars>>

(***************************************************************************)
(* Weather agent (a2a_weather_agent.py).                                   *)
(***************************************************************************)
CITY_COORDS == {"barcelona", "madrid", "valencia", "sevilla", "bilbao"}

\* str.lower() on the city names of the model.
Lower(x) == CASE x = "Madrid" -> "madrid" [] x = "BILBAO" -> "bilbao" [] OTHER -> x

WeatherMethods == {JStr("get_forecast")}
WeatherParams ==
    {PDict(NoParams),
     PDict([city |-> JStr("Madrid")]),
     PDict([city |-> JStr("BILBAO"), days |-> JInt(2)]),
     PDict([city |-> JStr("paris")]),
     PDict([city |-> JInt(5)]),
     PDict([city |-> JStr("madrid"), days |-> JStr("abc")])}

\* What the forecast API answers to one GET: a failure, or `days` daily records.
Forecasts == {[ok |-> FALSE, days |-> 0], [ok |-> TRUE, days |-> 1], [ok |-> TRUE, days |-> 2]}

\* get_weather_forecast(city, days) with the API answering `up`.
get_weather_forecast(city, days, up) ==
    IF city.k # "str" THEN Raise("AttributeError", <<"object has no attribute 'lower'">>)
    ELSE IF Lower(city.s) \notin CITY_COORDS
    THEN Ok([error |-> <<"City '", city.s, "' not found">>])
    ELSE IF ~up.ok THEN Ok([error |-> <<"Failed to fetch weather: ", "upstream">>])
    ELSE IF days.k # "int" THEN Ok([error |-> <<"Failed to fetch weather: ", "TypeError">>])
    ELSE IF days.n > up.days THEN Ok([error |-> <<"Failed to fetch weather: ", "IndexError">>])
    ELSE Ok([city |-> city.s, forecasts |-> [i \in 1..days.n |-> [day |-> i]]])

\* The outbound requests get_weather_forecast issues.
WeatherForecastRequests(city) ==
    IF city.k = "str" /\ Lower(city.s) \in CITY_COORDS THEN 1 ELSE 0

\* The try block of the weather agent's handle_a2a_request, after request.json().
WeatherTry(body, up) ==
    IF body.kind = "badjson" THEN Raise("JSONDecodeError", <<"Expecting value">>)
    ELSE IF body.kind = "nonobject"
    THEN Raise("AttributeError", <<"'list' object has no attribute 'get'">>)
    ELSE IF BodyGet(body.jsonrpc).k # "str" \/ BodyGet(body.jsonrpc).s # "2.0"
    THEN Ok(JsonError(400, BodyGet(body.id), -32600, <<"Invalid Request">>))
    ELSE
        LET method == BodyGet(body.method)
            params == BodyParams(body)
            request_id == BodyGet(body.id)
        IN  IF method.k = "str" /\ method.s = "get_forecast" THEN
                IF params.k # "dict"
                THEN Raise("AttributeError", <<"'list' object has no attribute 'get'">>)
                ELSE LET result == get_weather_forecast(
                                       GetOr(params.v, "city", JStr("barcelona")),
                                       GetOr(params.v, "days", JInt(1)), up)
                     IN  IF result.exc # "none" THEN result
                         ELSE Ok(JsonResult(200, request_id, result.val))
            ELSE Ok(JsonError(404, request_id, -32601,
                              <<"Method not found: ", PyStr(method)>>))

WeatherResponse(body, up) == JsonRpcExcept(body, WeatherTry(body, up))

WeatherRequests(body) ==
    IF body.kind # "object" \/ BodyGet(body.jsonrpc).k # "str"
       \/ BodyGet(body.jsonrpc).s # "2.0" \/ BodyParams(body).k # "dict"
       \/ body.method.k # "str" \/ body.method.s # "get_forecast"
    THEN 0
    ELSE WeatherForecastRequests(GetOr(BodyParams(body).v, "city", JStr("barcelona")))

WeatherEffects(body, up) ==
    [NoEffects EXCEPT !.outbound = WeatherRequests(body),
                      !.failed = WeatherRequests(body) > 0 /\ ~up.ok,
                      !.exc = WeatherTry(body, up).exc,
                      !.text = WeatherTry(body, up).text]

\* The handler from the request to its await on the forecast API, or to its
\* answer when it issues no request.
ServeWeather(body) ==
    /\ IF WeatherRequests(body) > 0
       THEN /\ BagCardinality(suspended) < MaxSuspended
            /\ suspended' = Suspend(Frame("weather", body))
            /\ UNCHANGED <<agent, request, response, effects>>
       ELSE \E up \in Forecasts :
            /\ agent' = "weather"
            /\ request' = body
            /\ response' = WeatherResponse(body, up)
            /\ effects' = WeatherEffects(body, up)
            /\ UNCHANGED suspended
    /\ UNCHANGED <<poolVars, loopVars, hitlVars, clientVars>>

HandleWeather ==
    /\ agent = "idle"
    /\ \E body \in Bodies(WeatherMethods, WeatherParams) : ServeWeather(body)

\* The forecast API answers `up` to a suspended handler's GET, and the handler
\* runs from its await to its answer.
ResumeWeather ==
    /\ agent = "idle"
    /\ \E f \in BagToSet(suspended), up \in Forecasts :
        /\ f.agent = "weather"
        /\ suspended' = Resume(f)
        /\ agent' = "weather"
        /\ request' = f.body
        /\ response' = WeatherResponse(f.body, up)
        /\ effects' = WeatherEffects(f.body, up)
    /\ UNCHANGED <<poolVars, loopVars, hitlVars, clientVars>>

(***************************************************************************)
(* HITL math agent (a2a_hitl_math_agent.py).                               *)
(***************************************************************************)
HitlMethods == {JStr("multiply_with_confirmation"), JStr("execute_multiplication")}
HitlParams ==
    {PDict(NoParams),
     PDict([base_number |-> JInt(3)]),
     PDict([base_number |-> JInt(3), factor |-> JInt(2)]),
     PDict([base_number |-> JInt(3), user_id |-> JStr("u1")]),
     PDict([factor |-> JInt(2)]),
     PDict([base_number |-> JInt(3), bogus |-> JInt(1)]),
     PDict([base_number |-> JStr("abc"), factor |-> JStr("x")])}

\* Binding **params to a signature: the keyword names the function accepts and
\* the ones it requires.
BindError(params, accepted, required) ==
    IF \E key \in DOMAIN params : key \notin accepted
    THEN Raise("TypeError", <<"got an unexpected keyword argument">>)
    ELSE IF \E key \in required : key \notin DOMAIN params
    THEN Raise("TypeError", <<"missing 1 required positional argument">>)
    ELSE Ok(0)

multiply_with_confirmation(params) ==
    LET bound == BindError(params, {"base_number", "factor", "user_id"}, {"base_number"})
        base_number == Get(params, "base_number")
        factor == GetOr(params, "factor", JInt(2))
    IN  IF bound.exc # "none" THEN bound
        ELSE Ok([status |-> "hitl_required",
                 action_type |-> "math_multiplication",
                 action_data |-> [base_number |-> base_number, factor |-> factor,
                                  operation |-> "multiplication"],
                 question |-> <<"Per quin numero vols multiplicar ", PyStr(base_number), "?">>])

execute_multiplication(params) ==
    LET bound == BindError(params, {"base_number", "factor"}, {"base_number"})
        base_number == Get(params, "base_number")
        factor == GetOr(params, "factor", JInt(2))
    IN  IF bound.exc # "none" THEN bound
        ELSE IF base_number.k = "int" /\ factor.k = "int"
        THEN Ok([base_number |-> base_number, factor |-> factor,
                 result |-> base_number.n * factor.n, operation |-> "multiplication"])
        ELSE Raise("TypeError", <<"can't multiply sequence by non-int">>)

\* The try block of a2a_handler.
HitlTry(body) ==
    IF body.kind = "badjson" THEN Raise("JSONDecodeError", <<"Expecting value">>)
    ELSE IF body.kind = "nonobject"
    THEN Raise("AttributeError", <<"'list' object has no attribute 'get'">>)
    ELSE
        LET method == BodyGet(body.method)
            params == BodyParams(body)
            request_id == BodyGet(body.id)
        IN  IF method.k = "str"
               /\ method.s \in {"multiply_with_confirmation", "execute_multiplication"}
            THEN IF params.k # "dict"
                 THEN Raise("TypeError", <<"argument after ** must be a mapping">>)
                 ELSE LET result == IF method.s = "multiply_with_confirmation"
                                    THEN multiply_with_confirmation(params.v)
                                    ELSE execute_multiplication(params.v)
                      IN  IF result.exc # "none" THEN result
                          ELSE Ok(Envelope(200, Dict(result.val), NullError, request_id))
            ELSE Ok(JsonError(200, request_id, -32601,
                              <<"Method '", PyStr(method), "' not found">>))

\* The except clause of a2a_handler: request_id is a local once the three
\* data.get() calls have run.
HitlExcept(body, out) ==
    IF out.exc = "none" THEN out.val
    ELSE JsonError(200, IF body.kind = "object" THEN BodyGet(body.id) ELSE JNull,
                   -32603, out.text)

HitlResponse(body) == HitlExcept(body, HitlTry(body))

HitlEffects(body) ==
    [NoEffects EXCEPT !.computed =
                          /\ body.kind = "object"
                          /\ body.method.k = "str" /\ body.method.s = "execute_multiplication"
                          /\ BodyParams(body).k = "dict"
                          /\ execute_multiplication(BodyParams(body).v).exc = "none",
                      !.exc = HitlTry(body).exc,
                      !.text = HitlTry(body).text]

\* The handler serves `body`: it has no await after reading the request.
ServeHitlMath(body) ==
    /\ agent' = "hitl_math"
    /\ request' = body
    /\ response' = HitlResponse(body)
    /\ effects' = HitlEffects(body)
    /\ UNCHANGED <<suspended, poolVars, loopVars, hitlVars, clientVars>>

HandleHitlMath ==
    /\ agent = "idle"
    /\ \E body \in Bodies(HitlMethods, HitlParams) : ServeHitlMath(body)

(***************************************************************************)
(* Google Workspace agent (a2a_google_workspace_agent.py).                 *)
(***************************************************************************)
WorkspaceMethods ==
    {JStr("search_emails"), JStr("read_email"), JStr("send_email"), JStr("list_calendar"),
     JStr("search_drive"), JStr("read_document")}
WorkspaceParams ==
    {PDict(NoParams), PDict([query |-> JStr("q")]), PDict([message_id |-> JStr("m1")])}

\* An event the run yields: one with a text, one whose text is None, or one
\* without a text attribute.
TextEvent(text) == [k |-> "text", s |-> text]
NoneEvent == [k |-> "none", s |-> ""]
BareEvent == [k |-> "bare", s |-> ""]

\* What building and running the agent does: the runtime packages cannot be
\* imported, the run raises, or the run yields its events and ends.
Runs ==
    {[kind |-> "import_error", events |-> <<>>], [kind |-> "run_error", events |-> <<>>]}
        \cup {[kind |-> "ok", events |-> e] :
                 e \in {<<>>, <<BareEvent>>,
                        <<TextEvent("You have "), NoneEvent, TextEvent(""), BareEvent,
                          TextEvent("2 emails")>>}}

\* response_text after the `async for`: the texts of the events that have a
\* non-empty text, concatenated in the order the run yielded them.
RECURSIVE response_text(_)
response_text(events) ==
    IF events = <<>> THEN <<>>
    ELSE IF Head(events).k = "text" /\ Head(events).s # ""
    THEN <<Head(events).s>> \o response_text(Tail(events))
    ELSE response_text(Tail(events))

\* _create_user_message_from_method(method, params): the synthetic user message.
\* Every method name, known or not, yields a message.
create_user_message_from_method(method, params) ==
    IF params.k # "dict"
    THEN (IF method.k = "str" /\ method.s \in {s.s : s \in WorkspaceMethods}
          THEN Raise("AttributeError", <<"'list' object has no attribute 'get'">>)
          ELSE Ok(<<"Executa l'operacio: ", PyStr(method)>>))
    ELSE IF method.k = "str" /\ method.s = "search_emails"
    THEN (IF Truthy(GetOr(params.v, "query", JStr("")))
          THEN Ok(<<"Busca emails amb la query: ", PyStr(Get(params.v, "query"))>>)
          ELSE Ok(<<"Quins emails tinc?">>))
    ELSE IF method.k = "str" /\ method.s = "read_email"
    THEN (IF Truthy(Get(params.v, "message_id"))
          THEN Ok(<<"Llegeix l'email amb ID: ", PyStr(Get(params.v, "message_id"))>>)
          ELSE Ok(<<"Llegeix l'ultim email">>))
    ELSE IF method.k = "str" /\ method.s = "send_email"
    THEN Ok(<<"Envia un email a ", PyStr(Get(params.v, "to"))>>)
    ELSE IF method.k = "str" /\ method.s = "list_calendar"
    THEN Ok(<<"Que tinc a l'agenda ", PyStr(GetOr(params.v, "time_range", JStr("avui")))>>)
    ELSE IF method.k = "str" /\ method.s = "search_drive"
    THEN Ok(<<"Busca fitxers a Drive: ", PyStr(GetOr(params.v, "query", JStr("")))>>)
    ELSE IF method.k = "str" /\ method.s = "read_document"
    THEN (IF Truthy(Get(params.v, "file_id"))
          THEN Ok(<<"Llegeix el document amb ID: ", PyStr(Get(params.v, "file_id"))>>)
          ELSE Ok(<<"Llegeix l'ultim document">>))
    ELSE Ok(<<"Executa l'operacio: ", PyStr(method)>>)

\* The try block of the Google Workspace handle_a2a_request, and its except.
WorkspaceTry(body, run) ==
    LET method == BodyGet(body.method)
        user_message == create_user_message_from_method(method, BodyParams(body))
    IN  IF run.kind = "import_error"
        THEN Raise("ModuleNotFoundError", <<"No module named 'nodus_adk_runtime'">>)
        ELSE IF user_message.exc # "none" THEN user_message
        ELSE IF run.kind = "run_error" THEN Raise("RuntimeError", <<"agent run failed">>)
        ELSE Ok(JsonResult(200, BodyGetOr(body.id, JStr("1")),
                           [status |-> "success", response |-> response_text(run.events),
                            method |-> method]))

\* request.json() and the three body.get() calls precede the try.
WorkspaceResponse(body, run) ==
    IF body.kind = "badjson" THEN Raised(<<"Expecting value">>)
    ELSE IF body.kind = "nonobject" THEN Raised(<<"'list' object has no attribute 'get'">>)
    ELSE LET out == WorkspaceTry(body, run)
         IN  IF out.exc = "none" THEN out.val
             ELSE JsonError(200, BodyGetOr(body.id, JStr("1")), -32603,
                            <<"Internal error: ">> \o out.text)

\* Whether the handler gets as far as runner.run_async(...): the imports
\* succeed and the user message is built.
WorkspaceRuns(body, run) ==
    /\ body.kind = "object"
    /\ run.kind # "import_error"
    /\ create_user_message_from_method(BodyGet(body.method), BodyParams(body)).exc = "none"

\* The runtime has failed when its packages cannot be imported, or when the
\* run was started and raised.
WorkspaceEffects(body, run) ==
    IF body.kind = "badjson"
    THEN [NoEffects EXCEPT !.exc = "JSONDecodeError", !.text = <<"Expecting value">>]
    ELSE IF body.kind = "nonobject"
    THEN [NoEffects EXCEPT !.exc = "AttributeError",
                           !.text = <<"'list' object has no attribute 'get'">>]
    ELSE [NoEffects EXCEPT
             !.llm = WorkspaceRuns(body, run),
             !.failed = \/ run.kind = "import_error"
                        \/ WorkspaceRuns(body, run) /\ run.kind = "run_error",
             !.exc = WorkspaceTry(body, run).exc,
             !.text = WorkspaceTry(body, run).text]

\* The handler from the request to the `async for` over runner.run_async(...),
\* where it is suspended while the run proceeds, or to its answer when it does
\* not get that far.  response_text is local to the handler, so the awaits of
\* one run are one suspension.
ServeGoogleWorkspace(body) ==
    /\ \E run \in Runs :
        IF WorkspaceRuns(body, run)
        THEN /\ BagCardinality(suspended) < MaxSuspended
             /\ suspended' = Suspend(Frame("google_workspace", body))
             /\ UNCHANGED <<agent, request, response, effects>>
        ELSE /\ agent' = "google_workspace"
             /\ request' = body
             /\ response' = WorkspaceResponse(body, run)
             /\ effects' = WorkspaceEffects(body, run)
             /\ UNCHANGED suspended
    /\ UNCHANGED <<poolVars, loopVars, hitlVars, clientVars>>

HandleGoogleWorkspace ==
    /\ agent = "idle"
    /\ \E body \in Bodies(WorkspaceMethods, WorkspaceParams) : ServeGoogleWorkspace(body)

\* The run of a suspended handler ends, having yielded its events or raising,
\* and the handler runs from the `async for` to its answer.
ResumeGoogleWorkspace ==
    /\ agent = "idle"
    /\ \E f \in BagToSet(suspended), run \in Runs :
        /\ f.agent = "google_workspace"
        /\ run.kind # "import_error"
        /\ suspended' = Resume(f)
        /\ agent' = "google_workspace"
        /\ request' = f.body
        /\ response' = WorkspaceResponse(f.body, run)
        /\ effects' = WorkspaceEffects(f.body, run)
    /\ UNCHANGED <<poolVars, loopVars, hitlVars, clientVars>>

\* The response has been sent; the process waits for the next request.
NextRequest ==
    /\ agent # "idle"
    /\ agent' = "idle"
    /\ request' = BadJson
    /\ response' = ValidationError
    /\ effects' = NoEffects
    /\ UNCHANGED <<suspended, poolVars, loopVars, hitlVars, clientVars>>

(***************************************************************************)
(* Agent pool manager (agent_pool_manager.py).                             *)
(*                                                                         *)
(* A module's source either binds `app` when executed ("app"), executes    *)
(* without binding it ("noapp"), or cannot be executed ("broken": the file *)
(* is missing or raises).  An application object is named by its module    *)
(* and by the number of the execution that created it.                     *)
(***************************************************************************)
Names == {"a", "b"}
Modules == {"m1", "m2"}
Sources == {"app", "noapp", "broken"}
MountPaths == {"/a", "/b", "/shared"}

Unloaded == [state |-> "unloaded", hasApp |-> FALSE, ver |-> 0]
Loaded(hasApp, ver) == [state |-> "loaded", hasApp |-> hasApp, ver |-> ver]
App(m, ver) == [module |-> m, ver |-> ver]

\* f"/{name}"
DefaultMountPath(name) == CASE name = "a" -> "/a" [] name = "b" -> "/b" [] OTHER -> "/shared"
\* f"{mount_path}/a2a" and f"{mount_path}/"
Endpoint(mount_path, suffix) == <<mount_path, suffix>>

\* The part of the process the pool's operations read and write.
Pool(ag, mo, lo) == [agents |-> ag, mounts |-> mo, loaded |-> lo]

\* importlib.import_module(module_path): the cached module, or the source executed.
import_module(lo, src, m) ==
    IF lo[m].state = "loaded" THEN Ok(lo)
    ELSE IF src[m] = "broken" THEN Raise("ModuleNotFoundError", <<"No module named ", m>>)
    ELSE Ok([lo EXCEPT ![m] = Loaded(src[m] = "app", IF src[m] = "app" THEN 1 ELSE 0)])

\* importlib.reload(module): the source executed again in the module's namespace,
\* which keeps the names the new source does not bind.
reload_module(lo, src, m) ==
    IF src[m] = "broken" THEN Raise("SyntaxError", <<"invalid syntax">>)
    ELSE IF src[m] = "app" THEN Ok([lo EXCEPT ![m] = Loaded(TRUE, lo[m].ver + 1)])
    ELSE Ok(lo)

\* A registration that drops the entry of the name before importing the module,
\* so that a failed call loses an agent that was registered.
register_agent_dropping(pool, src, name, module_path, cfg, mount_path) ==
    LET imported == import_module(pool.loaded, src, module_path)
        dropped == [n \in DOMAIN pool.agents \ {name} |-> pool.agents[n]]
    IN  IF imported.exc # "none" THEN [pool |-> [pool EXCEPT !.agents = dropped], ret |-> FALSE]
        ELSE IF ~imported.val[module_path].hasApp
        THEN [pool |-> [pool EXCEPT !.agents = dropped, !.loaded = imported.val], ret |-> FALSE]
        ELSE LET agent_app == App(module_path, imported.val[module_path].ver)
                 path == IF mount_path = "" THEN DefaultMountPath(name) ELSE mount_path
                 entry == [module |-> module_path, app |-> agent_app, mount_path |-> path,
                           config |-> cfg,
                           a2a_endpoint |-> Endpoint(path, "/a2a"),
                           card_endpoint |-> Endpoint(path, "/")]
             IN  [pool |-> Pool([n \in DOMAIN pool.agents \cup {name} |->
                                    IF n = name THEN entry ELSE pool.agents[n]],
                                Append(pool.mounts, [path |-> path, app |-> agent_app]),
                                imported.val),
                  ret |-> TRUE]

\* AgentPoolManager.register_agent: the pool after the call and the value returned.
register_agent(pool, src, name, module_path, cfg, mount_path) ==
    LET imported == import_module(pool.loaded, src, module_path)
    IN  IF imported.exc # "none" THEN [pool |-> pool, ret |-> FALSE]
        ELSE IF ~imported.val[module_path].hasApp
        THEN [pool |-> [pool EXCEPT !.loaded = imported.val], ret |-> FALSE]
        ELSE LET agent_app == App(module_path, imported.val[module_path].ver)
                 path == IF mount_path = "" THEN DefaultMountPath(name) ELSE mount_path
                 entry == [module |-> module_path, app |-> agent_app, mount_path |-> path,
                           config |-> cfg,
                           a2a_endpoint |-> Endpoint(path, "/a2a"),
                           card_endpoint |-> Endpoint(path, "/")]
             IN  [pool |-> Pool([n \in DOMAIN pool.agents \cup {name} |->
                                    IF n = name THEN entry ELSE pool.agents[n]],
                                Append(pool.mounts, [path |-> path, app |-> agent_app]),
                                imported.val),
                  ret |-> TRUE]

\* The mounts without those of one application, in order.
RECURSIVE MountsWithout(_, _)
MountsWithout(mo, app) ==
    IF mo = <<>> THEN <<>>
    ELSE IF Head(mo).app = app THEN MountsWithout(Tail(mo), app)
    ELSE <<Head(mo)>> \o MountsWithout(Tail(mo), app)

\* A removal that also takes the agent's application out of the routes.
unregister_agent_unmounting(pool, name) ==
    IF name \notin DOMAIN pool.agents THEN [pool |-> pool, ret |-> FALSE]
    ELSE [pool |-> [pool EXCEPT !.agents = [n \in DOMAIN pool.agents \ {name} |->
                                               pool.agents[n]],
                                !.mounts = MountsWithout(pool.mounts, pool.agents[name].app)],
          ret |-> TRUE]

\* AgentPoolManager.unregister_agent
unregister_agent(pool, name) ==
    IF name \notin DOMAIN pool.agents THEN [pool |-> pool, ret |-> FALSE]
    ELSE [pool |-> [pool EXCEPT !.agents = [n \in DOMAIN pool.agents \ {name} |->
                                               pool.agents[n]]],
          ret |-> TRUE]

\* A reload that reports success when the name is not registered.
reload_agent_lenient(pool, src, name) ==
    IF name \notin DOMAIN pool.agents THEN [pool |-> pool, ret |-> TRUE]
    ELSE LET agent_info == pool.agents[name]
             imported == import_module(pool.loaded, src, agent_info.module)
             reloaded == reload_module(imported.val, src, agent_info.module)
         IN  IF imported.exc # "none" THEN [pool |-> pool, ret |-> FALSE]
             ELSE IF reloaded.exc # "none"
             THEN [pool |-> [pool EXCEPT !.loaded = imported.val], ret |-> FALSE]
             ELSE register_agent([pool EXCEPT !.loaded = reloaded.val], src, name,
                                 agent_info.module, agent_info.config,
                                 agent_info.mount_path)

\* AgentPoolManager.reload_agent
reload_agent(pool, src, name) ==
    IF name \notin DOMAIN pool.agents THEN [pool |-> pool, ret |-> FALSE]
    ELSE LET agent_info == pool.agents[name]
             imported == import_module(pool.loaded, src, agent_info.module)
             reloaded == reload_module(imported.val, src, agent_info.module)
         IN  IF imported.exc # "none" THEN [pool |-> pool, ret |-> FALSE]
             ELSE IF reloaded.exc # "none"
             THEN [pool |-> [pool EXCEPT !.loaded = imported.val], ret |-> FALSE]
             ELSE register_agent([pool EXCEPT !.loaded = reloaded.val], src, name,
                                 agent_info.module, agent_info.config,
                                 agent_info.mount_path)

(***************************************************************************)
(* The configuration file: no path given, a missing file, malformed JSON,  *)
(* or a document whose "agents" list holds the entries.  An entry's keys   *)
(* may be missing: name = "" and module_path = "" stand for a missing key, *)
(* enabled is "absent", "true" or "false".                                 *)
(***************************************************************************)
AgentDefs ==
    {[name |-> "a", module_path |-> "m1", enabled |-> "absent"],
     [name |-> "b", module_path |-> "m2", enabled |-> "true"],
     [name |-> "b", module_path |-> "m1", enabled |-> "false"],
     [name |-> "", module_path |-> "m1", enabled |-> "absent"],
     [name |-> "a", module_path |-> "", enabled |-> "false"]}

RECURSIVE SeqsUpTo(_, _)
SeqsUpTo(S, n) ==
    IF n = 0 THEN {<<>>}
    ELSE LET shorter == SeqsUpTo(S, n - 1)
         IN  shorter \cup {Append(q, x) : q \in {r \in shorter : Len(r) = n - 1}, x \in S}

ConfigFiles ==
    {[kind |-> "nopath", agents |-> <<>>], [kind |-> "missing", agents |-> <<>>],
     [kind |-> "malformed", agents |-> <<>>]}
        \cup {[kind |-> "doc", agents |-> q] : q \in SeqsUpTo(AgentDefs, MaxConfigLen)}

\* agent_def.get("enabled", True) is truthy.
Enabled(agent_def) == agent_def.enabled # "false"

\* The loop of load_from_config from entry i on: the pool, the entries registered
\* so far, and the exception that ended the loop, if one did.
RECURSIVE LoadLoop(_, _, _, _, _)
LoadLoop(pool, src, defs, i, registered) ==
    IF i > Len(defs) THEN [pool |-> pool, registered |-> registered, exc |-> "none"]
    ELSE IF ~Enabled(defs[i]) THEN LoadLoop(pool, src, defs, i + 1, registered)
    ELSE IF defs[i].name = "" \/ defs[i].module_path = ""
    THEN [pool |-> pool, registered |-> registered, exc |-> "KeyError"]
    ELSE LET r == register_agent(pool, src, defs[i].name, defs[i].module_path, "config", "")
         IN  LoadLoop(r.pool, src, defs, i + 1,
                      IF r.ret THEN Append(registered, i) ELSE registered)

\* A load that empties the registry before it opens the file.
load_from_config_clearing(pool, src, file) ==
    LET cleared == [pool EXCEPT !.agents = [n \in {} |-> Unloaded]]
    IN  IF file.kind # "doc" THEN [pool |-> cleared, ret |-> 0, registered |-> <<>>]
        ELSE LET done == LoadLoop(cleared, src, file.agents, 1, <<>>)
             IN  [pool |-> done.pool,
                  ret |-> IF done.exc = "none" THEN Len(done.registered) ELSE 0,
                  registered |-> done.registered]

\* AgentPoolManager.load_from_config: the pool after the call, the value
\* returned, and the entries whose register_agent call returned True.
load_from_config(pool, src, file) ==
    IF file.kind # "doc" THEN [pool |-> pool, ret |-> 0, registered |-> <<>>]
    ELSE LET done == LoadLoop(pool, src, file.agents, 1, <<>>)
         IN  [pool |-> done.pool,
              ret |-> IF done.exc = "none" THEN Len(done.registered) ELSE 0,
              registered |-> done.registered]

\* The pool's router: a request under a mount path goes to the first mount of
\* that path, in the order the applications were mounted.
NoApp == [module |-> "", ver |-> 0]

RECURSIVE Dispatch(_, _)
Dispatch(mo, path) ==
    IF mo = <<>> THEN NoApp
    ELSE IF Head(mo).path = path THEN Head(mo).app
    ELSE Dispatch(Tail(mo), path)

\* GET /health: the count and the names of the registry.
health(ag) == [status |-> "healthy", agents_count |-> Cardinality(DOMAIN ag), agents |-> DOMAIN ag]

\* GET /: the count and, for each entry, its name, endpoints and module.
root(ag) ==
    [agents_count |-> Cardinality(DOMAIN ag),
     agents |-> {[name |-> n, a2a_endpoint |-> ag[n].a2a_endpoint,
                  card_endpoint |-> ag[n].card_endpoint, module |-> ag[n].module] : n \in DOMAIN ag}]

\* A listing that gives the card endpoint as the a2a endpoint and the reverse.
list_agents_swapped(ag) ==
    [agents |-> {[name |-> n, module |-> ag[n].module,
                  endpoints |-> [a2a |-> ag[n].card_endpoint, card |-> ag[n].a2a_endpoint],
                  config |-> ag[n].config] : n \in DOMAIN ag}]

\* GET /agents: for each entry, its name, module, endpoints and config.
list_agents(ag) ==
    [agents |-> {[name |-> n, module |-> ag[n].module,
                  endpoints |-> [a2a |-> ag[n].a2a_endpoint, card |-> ag[n].card_endpoint],
                  config |-> ag[n].config] : n \in DOMAIN ag}]

\* POST /reload/{agent_name}: the HTTP status for the value reload_agent returned.
reload_single_agent(success) == IF ~success THEN 404 ELSE 200

ThePool == Pool(agents, mounts, loaded)

SetPool(pool) ==
    /\ agents' = pool.agents
    /\ mounts' = pool.mounts
    /\ loaded' = pool.loaded

RegisterAgent ==
    \E name \in Names, m \in Modules, mount_path \in {"", "/shared"} :
        LET r == register_agent(ThePool, disk, name, m, "config", mount_path)
        IN  /\ last.op = "idle"
            /\ Len(r.pool.mounts) <= MaxMounts
            /\ SetPool(r.pool)
            /\ last' = [op |-> "register_agent", name |-> name, module_path |-> m, ret |-> r.ret]
            /\ UNCHANGED <<disk, config>>
            /\ UNCHANGED <<a2aVars, loopVars, hitlVars, clientVars>>

UnregisterAgent ==
    \E name \in Names :
        LET r == unregister_agent(ThePool, name)
        IN  /\ last.op = "idle"
            /\ SetPool(r.pool)
            /\ last' = [op |-> "unregister_agent", name |-> name, ret |-> r.ret]
            /\ UNCHANGED <<disk, config>>
            /\ UNCHANGED <<a2aVars, loopVars, hitlVars, clientVars>>

ReloadAgent ==
    \E name \in Names :
        LET r == reload_agent(ThePool, disk, name)
        IN  /\ last.op = "idle"
            /\ Len(r.pool.mounts) <= MaxMounts
            /\ SetPool(r.pool)
            /\ last' = [op |-> "reload_agent", name |-> name, ret |-> r.ret,
                        status |-> reload_single_agent(r.ret)]
            /\ UNCHANGED <<disk, config>>
            /\ UNCHANGED <<a2aVars, loopVars, hitlVars, clientVars>>

LoadFromConfig ==
    \E file \in ConfigFiles :
        LET r == load_from_config(ThePool, disk, file)
        IN  /\ last.op = "idle"
            /\ Len(r.pool.mounts) <= MaxMounts
            /\ SetPool(r.pool)
            /\ config' = file
            /\ last' = [op |-> "load_from_config", ret |-> r.ret, registered |-> r.registered]
            /\ UNCHANGED disk
            /\ UNCHANGED <<a2aVars, loopVars, hitlVars, clientVars>>

\* POST /reload with self.config_path naming `file` ("nopath": no path is
\* configured): the HTTP status, the pool after the call and the body answered.
reload_config(pool, src, file) ==
    IF file.kind = "nopath"
    THEN [status |-> 400, pool |-> pool, agents_loaded |-> 0, agents |-> {}, registered |-> <<>>]
    ELSE LET r == load_from_config(pool, src, file)
         IN  [status |-> 200, pool |-> r.pool, agents_loaded |-> r.ret,
              agents |-> DOMAIN r.pool.agents, registered |-> r.registered]

ReloadConfig ==
    \E file \in ConfigFiles :
        LET r == reload_config(ThePool, disk, file)
        IN  /\ last.op = "idle"
            /\ Len(r.pool.mounts) <= MaxMounts
            /\ SetPool(r.pool)
            /\ config' = file
            /\ last' = [op |-> "reload_config", status |-> r.status, ret |-> r.agents_loaded,
                        agents |-> r.agents, registered |-> r.registered]
            /\ UNCHANGED disk
            /\ UNCHANGED <<a2aVars, loopVars, hitlVars, clientVars>>

\* The source file of a module is edited, created or removed.
EditModule ==
    \E m \in Modules, src \in Sources :
        /\ last.op = "idle"
        /\ disk[m] # src
        /\ disk' = [disk EXCEPT ![m] = src]
        /\ UNCHANGED <<agents, mounts, loaded, config, last>>
        /\ UNCHANGED <<a2aVars, loopVars, hitlVars, clientVars>>

NoConfig == [kind |-> "nopath", agents |-> <<>>]
Idle == [op |-> "idle"]

\* The caller has the operation's return value; the pool waits for the next call.
Return ==
    /\ last.op # "idle"
    /\ last' = Idle
    /\ config' = NoConfig
    /\ UNCHANGED <<agents, mounts, disk, loaded>>
    /\ UNCHANGED <<a2aVars, loopVars, hitlVars, clientVars>>

(***************************************************************************)
(* The pool's calls line by line, as the event loop runs them.  The        *)
(* handlers of the pool are coroutines of one event loop, and register_    *)
(* agent, reload_agent and load_from_config contain no await: a call that  *)
(* has started holds the loop until it returns.                            *)
(***************************************************************************)
NoFile == [kind |-> "nopath", agents |-> <<>>]

Task(op, pc, name, module, mount_path, file, queue, count, ret, before) ==
    [op |-> op, pc |-> pc, name |-> name, module |-> module, mount_path |-> mount_path,
     file |-> file, queue |-> queue, count |-> count, ret |-> ret, before |-> before]

NoTask == Task("none", "idle", "", "", "", NoFile, <<>>, 0, FALSE, Pool(<<>>, <<>>, <<>>))

NotObserved == [seen |-> FALSE, reader |-> "none", during |-> "idle", op |-> "none"]

\* The event loop is free: no call of the pool is between its first and its last line.
LoopFree == task.pc = "idle"

\* A reader that does not wait for the loop, as a thread of its own would not.
Preemptive == TRUE

\* The lines of a call of the pool at which its coroutine awaits, and the
\* event loop may run another coroutine before the call goes on.
\* register_agent (49-116), reload_agent (139-175) and load_from_config
\* (177-236) are plain `def` and contain no await, and the handlers that call
\* them, reload_config and reload_single_agent (272-312), call them without
\* one: there is no such line.
AwaitPoints == {}

\* A coroutine that reads the pool (GET /, /health, /agents, or the router
\* matching a request against the mounts; all `async def` of the one event
\* loop uvicorn.run serves, line 370) is run when the loop is handed over:
\* when it is free, or when the call in progress is at an await.
ReaderCanRun == LoopFree \/ task.pc \in AwaitPoints

\* What a call of the pool does when one of its lines has run.
After(pc, ret) == task' = [task EXCEPT !.pc = pc, !.ret = ret]

\* register_agent is called (directly or by POST, with the loop free).
StartRegister ==
    \E name \in Names, m \in Modules, mount_path \in {"", "/shared"} :
        /\ LoopFree
        /\ Len(mounts) < MaxMounts
        /\ task' = Task("register_agent", "import", name, m, mount_path, NoFile, <<>>, 0,
                        FALSE, ThePool)
        /\ UNCHANGED <<agents, mounts, loaded>>

\* reload_agent is called: the membership test of its first lines.
StartReload ==
    \E name \in Names :
        /\ LoopFree
        /\ Len(mounts) < MaxMounts
        /\ task' = Task("reload_agent", IF name \in DOMAIN agents THEN "reload" ELSE "return",
                        name, IF name \in DOMAIN agents THEN agents[name].module ELSE "",
                        IF name \in DOMAIN agents THEN agents[name].mount_path ELSE "",
                        NoFile, <<>>, 0, FALSE, ThePool)
        /\ UNCHANGED <<agents, mounts, loaded>>

\* load_from_config is called: the file is opened and parsed.
StartLoad ==
    \E file \in ConfigFiles :
        /\ LoopFree
        /\ Len(mounts) + Len(file.agents) <= MaxMounts
        /\ task' = Task("load_from_config", IF file.kind = "doc" THEN "next" ELSE "return",
                        "", "", "", file, file.agents, 0, FALSE, ThePool)
        /\ UNCHANGED <<agents, mounts, loaded>>

\* reload_agent: importlib.reload(importlib.import_module(module)).
StepReload ==
    /\ task.pc = "reload"
    /\ LET imported == import_module(loaded, disk, task.module)
           reloaded == reload_module(imported.val, disk, task.module)
       IN  IF imported.exc # "none" THEN After("return", FALSE) /\ UNCHANGED loaded
           ELSE IF reloaded.exc # "none" THEN After("return", FALSE) /\ loaded' = imported.val
           ELSE After("import", FALSE) /\ loaded' = reloaded.val
    /\ UNCHANGED <<agents, mounts>>

\* Where a register_agent call that failed goes on: back in the loop of
\* load_from_config, or to the caller.
Failed == IF task.op = "load_from_config" THEN "next" ELSE "return"

\* register_agent: import_module and the test for the `app` attribute.
StepImport ==
    /\ task.pc = "import"
    /\ LET imported == import_module(loaded, disk, task.module)
       IN  IF imported.exc # "none" THEN After(Failed, FALSE) /\ UNCHANGED loaded
           ELSE IF ~imported.val[task.module].hasApp
           THEN After(Failed, FALSE) /\ loaded' = imported.val
           ELSE After("mount", FALSE) /\ loaded' = imported.val
    /\ UNCHANGED <<agents, mounts>>

\* The mount path of the call in progress.
TaskPath == IF task.mount_path = "" THEN DefaultMountPath(task.name) ELSE task.mount_path

\* register_agent: self.app.mount(mount_path, agent_app).
StepMount ==
    /\ task.pc = "mount"
    /\ mounts' = Append(mounts, [path |-> TaskPath,
                                 app |-> App(task.module, loaded[task.module].ver)])
    /\ After("record", FALSE)
    /\ UNCHANGED <<agents, loaded>>

\* register_agent: self.agents[name] = {...}; return True.
StepRecord ==
    /\ task.pc = "record"
    /\ LET entry == [module |-> task.module,
                     app |-> App(task.module, loaded[task.module].ver),
                     mount_path |-> TaskPath, config |-> "config",
                     a2a_endpoint |-> Endpoint(TaskPath, "/a2a"),
                     card_endpoint |-> Endpoint(TaskPath, "/")]
       IN  agents' = [n \in DOMAIN agents \cup {task.name} |->
                         IF n = task.name THEN entry ELSE agents[n]]
    /\ IF task.op = "load_from_config"
       THEN task' = [task EXCEPT !.pc = "next", !.count = task.count + 1]
       ELSE After("return", TRUE)
    /\ UNCHANGED <<mounts, loaded>>

\* load_from_config: the head of the loop over the entries of the file.
StepNext ==
    /\ task.pc = "next"
    /\ IF task.queue = <<>> THEN After("return", FALSE)
       ELSE LET agent_def == Head(task.queue)
            IN  IF ~Enabled(agent_def) THEN task' = [task EXCEPT !.queue = Tail(task.queue)]
                ELSE IF agent_def.name = "" \/ agent_def.module_path = ""
                THEN task' = [task EXCEPT !.pc = "return", !.count = 0]
                ELSE task' = [task EXCEPT !.pc = "import", !.queue = Tail(task.queue),
                                          !.name = agent_def.name,
                                          !.module = agent_def.module_path]
    /\ UNCHANGED <<agents, mounts, loaded>>

\* The call returns and the loop is free again.
Finish ==
    /\ task.pc = "return"
    /\ task' = NoTask
    /\ UNCHANGED <<agents, mounts, loaded>>

\* One line of the call in progress.
TaskStep ==
    /\ (StepReload \/ StepImport \/ StepMount \/ StepRecord \/ StepNext \/ Finish)
    /\ UNCHANGED <<disk, config, last, observed>>
    /\ UNCHANGED <<a2aVars, hitlVars, clientVars>>

StartCall ==
    /\ (StartRegister \/ StartReload \/ StartLoad)
    /\ UNCHANGED <<disk, config, last, observed>>
    /\ UNCHANGED <<a2aVars, hitlVars, clientVars>>

\* A reader runs: a listing handler or the router looks at the pool.
Read ==
    \E reader \in {"health", "root", "list_agents", "dispatch"} :
        /\ ReaderCanRun
        /\ observed' = [seen |-> TRUE, reader |-> reader, during |-> task.pc, op |-> task.op]
        /\ observed' # observed
        /\ UNCHANGED <<poolVars, task>>
        /\ UNCHANGED <<a2aVars, hitlVars, clientVars>>

(***************************************************************************)
(* The email agent's confirmation flow: /a2a answers send_email with       *)
(* "hitl_required", a human approves, and /a2a/execute is posted the       *)
(* action to run.  The agent keeps no record of what it asked for.         *)
(***************************************************************************)
\* The bodies posted to /a2a/execute: JSON objects with or without
\* action_type and action_data.
ExecuteRequests ==
    {[action_type |-> t, action_data |-> d] :
        t \in {JStr("send_email"), JStr("delete_all"), JAbsent},
        d \in {PAbsent, [k |-> "null"],
               PDict([to |-> JStr("a@x"), subject |-> JStr("hi"), body |-> JStr("text")]),
               PDict([to |-> JStr("a@x"), subject |-> JStr("hi"), body |-> JStr("text"),
                      cc |-> JList(<<"c@x">>)]),
               PDict([to |-> JStr("b@x"), subject |-> JStr("hi"), body |-> JStr("text"),
                      cc |-> JList(<<>>), bcc |-> JList(<<>>)]),
               PDict([to |-> JStr("a@x"), subject |-> JStr("hi")])}}

\* The arguments simulate_email_send is called with for an action_data that
\* has to, subject and body.
SendArguments(action_data) ==
    [to |-> action_data["to"], subject |-> action_data["subject"], body |-> action_data["body"],
     cc |-> GetOr(action_data, "cc", JList(<<>>)),
     bcc |-> GetOr(action_data, "bcc", JList(<<>>))]

\* simulate_email_send: the result it returns.
simulate_email_send(arguments) ==
    [status |-> "sent", to |-> arguments.to, subject |-> arguments.subject]

\* The try block of execute_approved_action: the value returned and the
\* arguments of the simulate_email_send call, if it is reached.
ExecuteTry(req) ==
    LET action_type == BodyGet(req.action_type)
        action_data == IF req.action_data.k = "absent" THEN PDict(NoParams) ELSE req.action_data
    IN  IF action_type = JStr("send_email") THEN
            IF action_data.k # "dict"
            THEN Raise("TypeError", <<"'NoneType' object is not subscriptable">>)
            ELSE IF \E key \in {"to", "subject", "body"} : key \notin DOMAIN action_data.v
            THEN Raise("KeyError",
                       <<CHOOSE key \in {"to", "subject", "body"} :
                            /\ key \notin DOMAIN action_data.v
                            /\ key = "to" \/ "to" \in DOMAIN action_data.v
                            /\ key # "body" \/ "subject" \in DOMAIN action_data.v>>)
            ELSE Ok([status |-> "success",
                     result |-> simulate_email_send(SendArguments(action_data.v))])
        ELSE Ok([status |-> "error",
                 message |-> <<"Unknown action type: ", PyStr(action_type)>>])

\* execute_approved_action with its except clause.
execute_approved_action(req) ==
    IF ExecuteTry(req).exc = "none" THEN ExecuteTry(req).val
    ELSE [status |-> "error", message |-> ExecuteTry(req).text]

\* Whether execute_approved_action calls simulate_email_send.
ExecuteSends(req) == ExecuteTry(req).exc = "none" /\ ExecuteTry(req).val.status = "success"

\* The answer asks for a confirmation.
HitlRequired(resp) ==
    /\ resp.kind = "envelope"
    /\ resp.result.k = "dict"
    /\ "status" \in DOMAIN resp.result.v
    /\ resp.result.v.status = "hitl_required"

\* The envelopes posted to /a2a during the flow.
EmailPosts == {Object(JStr("2.0"), m, p, JInt(1)) : m \in EmailMethods, p \in EmailParams}

\* POST /a2a of the email agent.
PostEmail ==
    \E body \in EmailPosts :
        /\ reply' = EmailResponse(body)
        /\ pending' = IF HitlRequired(EmailResponse(body))
                      THEN pending \cup {EmailResponse(body).result.v.action_data}
                      ELSE pending
        /\ UNCHANGED <<approved, outbox>>
        /\ UNCHANGED <<a2aVars, poolVars, loopVars, clientVars>>

\* The human approves an action the agent asked a confirmation for.
Approve ==
    \E action_data \in pending \ approved :
        /\ approved' = approved \cup {action_data}
        /\ UNCHANGED <<pending, outbox, reply>>
        /\ UNCHANGED <<a2aVars, poolVars, loopVars, clientVars>>

\* POST /a2a/execute.
PostExecute ==
    \E req \in ExecuteRequests :
        /\ Len(outbox) < MaxOutbox
        /\ reply' = execute_approved_action(req)
        /\ outbox' = IF ExecuteSends(req)
                     THEN Append(outbox, SendArguments(req.action_data.v))
                     ELSE outbox
        /\ UNCHANGED <<pending, approved>>
        /\ UNCHANGED <<a2aVars, poolVars, loopVars, clientVars>>

(***************************************************************************)
(* A2AClient (a2a_client.py) and the demos that launch its calls           *)
(* (a2a_parallel_demo.py).  A call is a coroutine: created by              *)
(* client.call(...), started by the event loop in the order asyncio.gather *)
(* was given it, suspended inside `await client.post(...)` and resumed by  *)
(* the response.  Between two suspensions a coroutine runs alone.          *)
(***************************************************************************)
Clients == {"weather_client", "currency_client"}

\* The calls a demo launches together: the two of parallel_execution_demo,
\* the three of weather_multiple_cities_demo, and a call awaited by itself.
Batches ==
    {<<"weather_client", "currency_client">>,
     <<"weather_client", "weather_client", "weather_client">>,
     <<"weather_client">>, <<"currency_client">>}

\* One _request_id for the class, shared by every client.
CounterOfClass(client) == <<"A2AClient", "_request_id">>

\* The variables of a client: the attributes __init__ gives the instance.
\* (The module's globals, logger and httpx, are bound at import and never
\* assigned again; they are not state of the calls.)
CounterOf(client) == <<client, "_request_id">>
EndpointOf(client) == <<client, "agent_endpoint">>
TimeoutOf(client) == <<client, "timeout">>

\* A2AClient._next_request_id always answering 1.
next_request_id_fixed(client) == 1

\* A2AClient._next_request_id: the value of self._request_id after `+= 1`.
next_request_id(client) == counter[client] + 1

\* The coroutine objects of one launch: none has run a line yet.
Created(batch, number) ==
    [i \in DOMAIN batch |->
        [client |-> batch[i], batch |-> number, pc |-> "created", request_id |-> 0,
         reads |-> {}, writes |-> {}]]

\* The number of launches so far.
Launches == IF calls = <<>> THEN 0 ELSE calls[Len(calls)].batch

\* The demo creates the coroutines of a batch and awaits them (asyncio.gather,
\* or a plain await for one call); the demo itself is past every earlier await.
Launch ==
    \E batch \in Batches :
        /\ \A i \in DOMAIN calls : calls[i].pc \in {"returned", "raised"}
        /\ Len(calls) + Len(batch) <= MaxCalls
        /\ calls' = calls \o Created(batch, Launches + 1)
        /\ UNCHANGED <<counter, wire>>
        /\ UNCHANGED <<a2aVars, poolVars, loopVars, hitlVars>>

\* The attributes of the clients a step assigns: those whose value after the
\* step differs from the value before it.  Of the three attributes only
\* _request_id is ever assigned after __init__ (line 34); agent_endpoint and
\* timeout are assigned at lines 28-29 alone and keep their values.
Written == {CounterOf(client) : client \in {c \in Clients : counter'[c] # counter[c]}}

\* The event loop starts the oldest coroutine not yet started; it runs alone
\* from line 55 to its first suspension, inside `await client.post(...)`
\* (lines 72-73): it takes its id (55), builds the payload (57-62), logs
\* self.agent_endpoint (66) and builds the httpx client from self.timeout
\* (72).  The request is not yet on the wire.
StartClientCall ==
    \E i \in DOMAIN calls :
        /\ calls[i].pc = "created"
        /\ \A j \in 1..(i - 1) : calls[j].pc # "created"
        /\ LET client == calls[i].client
               request_id == next_request_id(client)
           IN  /\ counter' = [counter EXCEPT ![client] = request_id]
               /\ calls' = [calls EXCEPT ![i].pc = "built",
                                         ![i].request_id = request_id,
                                         ![i].reads = {CounterOf(client), EndpointOf(client),
                                                       TimeoutOf(client)},
                                         ![i].writes = @ \cup Written]
        /\ UNCHANGED wire
        /\ UNCHANGED <<a2aVars, poolVars, loopVars, hitlVars>>

\* A started call gets its connection and its payload goes to
\* self.agent_endpoint (lines 73-77), or it fails to connect and raises
\* through the except clauses, which log self.agent_endpoint (124-130);
\* started calls proceed in any order.
PostClientCall ==
    \E i \in DOMAIN calls, connected \in BOOLEAN :
        /\ calls[i].pc = "built"
        /\ UNCHANGED counter
        /\ calls' = [calls EXCEPT ![i].pc = IF connected THEN "posted" ELSE "raised",
                                  ![i].reads = @ \cup {EndpointOf(calls[i].client)},
                                  ![i].writes = @ \cup Written]
        /\ wire' = IF connected
                   THEN Append(wire, [client |-> calls[i].client, id |-> calls[i].request_id])
                   ELSE wire
        /\ UNCHANGED <<a2aVars, poolVars, loopVars, hitlVars>>

\* The answer of a posted request arrives, in any order: the call logs
\* self.agent_endpoint and returns the result (103-114), or raises (HTTP
\* error, timeout, JSON-RPC error: 97-101, 116-130).
FinishClientCall ==
    \E i \in DOMAIN calls, outcome \in {"returned", "raised"} :
        /\ calls[i].pc = "posted"
        /\ UNCHANGED <<counter, wire>>
        /\ calls' = [calls EXCEPT ![i].pc = outcome,
                                  ![i].reads = @ \cup {EndpointOf(calls[i].client)},
                                  ![i].writes = @ \cup Written]
        /\ UNCHANGED <<a2aVars, poolVars, loopVars, hitlVars>>

InitHitl ==
    /\ pending = {}
    /\ approved = {}
    /\ outbox = <<>>
    /\ reply = ValidationError

InitClient ==
    /\ counter = [client \in Clients |-> 0]
    /\ calls = <<>>
    /\ wire = <<>>

InitLoop ==
    /\ task = NoTask
    /\ observed = NotObserved

InitA2A ==
    /\ agent = "idle"
    /\ request = BadJson
    /\ response = ValidationError
    /\ effects = NoEffects
    /\ suspended = EmptyBag

InitPool ==
    /\ agents = [n \in {} |-> Unloaded]
    /\ mounts = <<>>
    /\ disk \in [Modules -> Sources]
    /\ loaded = [m \in Modules |-> Unloaded]
    /\ config = NoConfig
    /\ last = Idle

Init == InitA2A /\ InitPool /\ InitLoop /\ InitHitl /\ InitClient

Next ==
    \/ HandleCalculator
    \/ HandleEmail
    \/ HandleCurrency
    \/ ResumeCurrency
    \/ HandleWeather
    \/ ResumeWeather
    \/ HandleHitlMath
    \/ HandleGoogleWorkspace
    \/ ResumeGoogleWorkspace
    \/ NextRequest

\* The agents are served on their own, without a pool: no module file is read.
InitAgents == Init /\ disk = [m \in Modules |-> "app"]

Spec == InitAgents /\ [][Next]_vars

\* The requests of `bodies` that application `app` is sent in an orderly
\* run: anything when no handler is suspended; otherwise what the repository's
\* client sends to one application at a time, well-formed and with an id that
\* no request in flight has.
Orderly(app, bodies) ==
    IF suspended = EmptyBag THEN bodies
    ELSE IF \E f \in BagToSet(suspended) : f.agent # app \/ ~ClientFormed(f.body) THEN {}
    ELSE {body \in bodies :
             ClientFormed(body) /\ \A f \in BagToSet(suspended) : f.body.id # body.id}

\* The behaviours of Spec whose overlapping requests are orderly.  Every
\* handler answers from its own request and its own upstream alone, so what a
\* request is answered is the same in these behaviours as in all of Spec's,
\* whose state space (every request in flight with every other) is beyond
\* enumeration.
OrderlyNext ==
    \/ /\ agent = "idle"
       /\ \E body \in Orderly("calculator", Bodies(CalculatorMethods, CalculatorParams)) :
            ServeCalculator(body)
    \/ /\ agent = "idle"
       /\ \E body \in Orderly("email", Bodies(EmailMethods, EmailParams)) :
            ServeEmail(body)
    \/ /\ agent = "idle"
       /\ \E body \in Orderly("currency", Bodies(CurrencyMethods, CurrencyParams)) :
            ServeCurrency(body)
    \/ /\ agent = "idle"
       /\ \E body \in Orderly("weather", Bodies(WeatherMethods, WeatherParams)) :
            ServeWeather(body)
    \/ /\ agent = "idle"
       /\ \E body \in Orderly("hitl_math", Bodies(HitlMethods, HitlParams)) :
            ServeHitlMath(body)
    \/ /\ agent = "idle"
       /\ \E body \in Orderly("google_workspace", Bodies(WorkspaceMethods, WorkspaceParams)) :
            ServeGoogleWorkspace(body)
    \/ ResumeCurrency
    \/ ResumeWeather
    \/ ResumeGoogleWorkspace
    \/ NextRequest

OrderlySpec == InitAgents /\ [][OrderlyNext]_vars

\* The registry under explicit registration, removal and reload, with the
\* modules' sources changing on disk.
NextPool ==
    \/ RegisterAgent
    \/ UnregisterAgent
    \/ ReloadAgent
    \/ EditModule
    \/ Return

PoolSpec == Init /\ [][NextPool]_vars

\* The registry under configuration loading.
NextConfig ==
    \/ LoadFromConfig
    \/ UnregisterAgent
    \/ Return

ConfigSpec == Init /\ [][NextConfig]_vars

\* load_from_config on a file of at most two entries.
LoadShortConfig == LoadFromConfig /\ Len(config'.agents) <= 2

\* The registry under every operation of the pool, the sources staying as
\* they are.
NextRegistry ==
    \/ RegisterAgent
    \/ UnregisterAgent
    \/ ReloadAgent
    \/ LoadShortConfig
    \/ Return

RegistrySpec == Init /\ [][NextRegistry]_vars

\* The pool loads its configuration at startup and on POST /reload, the file
\* changing in between.
NextReload ==
    \/ LoadFromConfig
    \/ ReloadConfig
    \/ Return

ReloadSpec == Init /\ [][NextReload]_vars

\* The pool's calls line by line with readers in between.  A call that has
\* started runs to its return, and requests keep being served.
NextLoop ==
    \/ StartCall
    \/ TaskStep
    \/ Read

LoopSpec == Init /\ [][NextLoop]_vars /\ WF_vars(TaskStep) /\ WF_vars(Read)

\* The email agent's two endpoints and the human who approves.
NextEmail ==
    \/ PostEmail
    \/ Approve
    \/ PostExecute

EmailSpec == Init /\ [][NextEmail]_vars

\* The demos' calls on the clients.
NextClient ==
    \/ Launch
    \/ StartClientCall
    \/ PostClientCall
    \/ FinishClientCall

ClientSpec == Init /\ [][NextClient]_vars

(***************************************************************************)
(* Properties of the agent handlers.                                       *)
(***************************************************************************)
Handled == agent # "idle"

MethodsOf(a) ==
    CASE a = "calculator" -> CalculatorMethods
      [] a = "email" -> EmailMethods
      [] a = "currency" -> CurrencyMethods
      [] a = "weather" -> WeatherMethods
      [] a = "hitl_math" -> HitlMethods
      [] a = "google_workspace" -> WorkspaceMethods
      [] OTHER -> {}

\* An envelope with protocol version "2.0", an integer id and a params object.
PlainEnvelope ==
    /\ request.kind = "object"
    /\ request.jsonrpc = JStr("2.0")
    /\ request.id.k = "int"
    /\ request.params.k = "dict"

ErrorCode(code) ==
    /\ response.kind = "envelope"
    /\ response.error.k = "dict"
    /\ response.error.code = code

NothingDone == ~effects.computed /\ effects.outbound = 0 /\ ~effects.llm /\ ~effects.sent

\* C1: an envelope whose method the agent does not support is answered with
\* error -32601, the method name in the message, and nothing is computed,
\* requested upstream or run for it.  Stated for envelopes that are valid
\* otherwise and name a method.
C1_UnknownMethodNotFound ==
    (Handled /\ PlainEnvelope /\ request.method.k = "str"
        /\ request.method \notin MethodsOf(agent))
    => /\ ErrorCode(-32601)
       /\ Contains(response.error.message, request.method.s)
       /\ NothingDone

\* C2: every response envelope has exactly one of result / error non-null.
C2_ExactlyOneOfResultAndError ==
    (Handled /\ response.kind = "envelope")
    => (IsNull(response.result) # IsNull(response.error))

\* C3: the id of every response envelope is the id the caller supplied (null
\* when the caller supplied none).
C3_IdEchoedUnchanged ==
    (Handled /\ request.kind = "object" /\ response.kind = "envelope")
    => response.id = BodyGet(request.id)

\* The parameters of the model that are well-formed for a supported method.
WellFormedParams(a, method, params) ==
    CASE a = "calculator" /\ method = "calculate" ->
            params \in {[expression |-> JStr(x)] : x \in {"2 + 2", "15% of 200", "sqrt(144)", "2 ^ 3"}}
      [] a = "calculator" /\ method = "percentage" ->
            params = [percentage |-> JInt(2), of_value |-> JInt(3)]
      [] a = "email" /\ method = "send_email" ->
            /\ {"to", "subject", "body"} \subseteq DOMAIN params
            /\ \A key \in {"to", "subject", "body"} : params[key].k = "str" /\ params[key].s # ""
      [] a = "email" /\ method = "check_inbox" ->
            "limit" \in DOMAIN params => params["limit"].k = "int"
      [] a = "currency" /\ method = "convert" ->
            /\ "from_currency" \in DOMAIN params => params["from_currency"].k = "str"
            /\ "to_currencies" \notin DOMAIN params
      [] a = "currency" /\ method = "convert_multiple" ->
            /\ "from_currency" \in DOMAIN params => params["from_currency"].k = "str"
            /\ "to_currency" \notin DOMAIN params
      [] a = "currency" /\ method = "supported_currencies" -> DOMAIN params = {}
      [] a = "weather" ->
            /\ "city" \in DOMAIN params => params["city"].k = "str"
            /\ "days" \in DOMAIN params => params["days"].k = "int"
      [] a = "hitl_math" ->
            /\ "base_number" \in DOMAIN params
            /\ DOMAIN params \subseteq {"base_number", "factor"}
            /\ \A key \in DOMAIN params : params[key].k = "int"
      [] a = "google_workspace" -> TRUE
      [] OTHER -> FALSE

\* C4: a valid envelope (version "2.0", an id that is an integer, a string or
\* null) with a supported method and well-formed params gets a result object,
\* a null error and its own id, when neither the upstream service nor the
\* runtime fails.
C4_ValidRequestSucceeds ==
    (/\ Handled
     /\ request.kind = "object"
     /\ request.jsonrpc = JStr("2.0")
     /\ request.id.k \in {"int", "str", "null"}
     /\ request.method \in MethodsOf(agent)
     /\ request.params.k = "dict"
     /\ WellFormedParams(agent, request.method.s, request.params.v)
     /\ ~effects.failed)
    => /\ response.kind = "envelope"
       /\ response.result.k = "dict"
       /\ IsNull(response.error)
       /\ response.id = request.id

\* C5: an envelope whose jsonrpc is not "2.0" is answered with error -32600 and
\* its method is not executed.  Stated for envelopes that are valid otherwise.
C5_VersionValidatedFirst ==
    (/\ Handled
     /\ request.kind = "object"
     /\ request.jsonrpc = JStr("1.0")
     /\ request.id.k = "int"
     /\ request.params.k = "dict"
     /\ request.method.k = "str")
    => ErrorCode(-32600) /\ NothingDone

\* A supported method called without a parameter it requires, or (hitl_math)
\* with a parameter name it does not know.
RequiredMissing ==
    LET params == request.params.v
        method == request.method.s
    IN  CASE agent = "calculator" /\ method = "calculate" -> "expression" \notin DOMAIN params
          [] agent = "calculator" /\ method = "percentage" ->
                ~({"percentage", "of_value"} \subseteq DOMAIN params)
          [] agent = "email" /\ method = "send_email" ->
                ~({"to", "subject", "body"} \subseteq DOMAIN params)
          [] agent = "hitl_math" ->
                \/ "base_number" \notin DOMAIN params
                \/ ~(DOMAIN params \subseteq {"base_number", "factor", "user_id"})
          [] OTHER -> FALSE

\* C6: a supported method called without a required parameter is answered with
\* error -32602 or -32000.
C6_MissingParameterCode ==
    (Handled /\ PlainEnvelope /\ request.method \in MethodsOf(agent) /\ RequiredMissing)
    => (ErrorCode(-32602) \/ ErrorCode(-32000))

\* An exception other than the calculator's own ValueError was raised while the
\* handler served a JSON object.
UnexpectedException ==
    /\ Handled
    /\ request.kind = "object"
    /\ effects.exc # "none"
    /\ ~(agent = "calculator" /\ effects.exc = "ValueError")

\* C7: an unexpected exception becomes an error envelope with code -32603 whose
\* message contains the exception text.
C7_UnexpectedExceptionIsInternalError ==
    UnexpectedException
    => /\ ErrorCode(-32603)
       /\ \A i \in DOMAIN effects.text : Contains(response.error.message, effects.text[i])

\* C8: whatever the body, no exception leaves a handler.
C8_NoFailureEscapes == Handled => response.kind # "raised"

(***************************************************************************)
(* Properties of the pool registry.                                        *)
(***************************************************************************)
\* Whether importing module m yields a module with an `app` attribute: the
\* cached module decides when there is one, else the source on disk.
ProvidesApp(m) == IF loaded[m].state = "loaded" THEN loaded[m].hasApp ELSE disk[m] = "app"

\* C9: register_agent returns False when the module cannot be imported or has
\* no `app`, and a call that returns False leaves the registry and the mounts
\* as they were, also when the name was registered already.
C9_FailedRegisterChangesNothing ==
    [][last'.op = "register_agent"
        => /\ (~ProvidesApp(last'.module_path) => last'.ret = FALSE)
           /\ (last'.ret = FALSE => agents' = agents /\ mounts' = mounts)]_vars

\* A registration of an already registered name has just failed.
C9_Witness ==
    /\ last.op = "register_agent"
    /\ last.ret = FALSE
    /\ last.name \in DOMAIN agents
    /\ ~ProvidesApp(last.module_path)
    /\ mounts # <<>>

\* The entries of the loaded file that are enabled, name a module and an agent,
\* and whose module provides an application.
Registrable ==
    {i \in 1..Len(config.agents) :
        /\ Enabled(config.agents[i])
        /\ config.agents[i].name # ""
        /\ config.agents[i].module_path # ""
        /\ ProvidesApp(config.agents[i].module_path)}

Range(q) == {q[i] : i \in DOMAIN q}

\* C10: load_from_config registers exactly the enabled entries whose
\* registration succeeds, none that is disabled, and returns how many it
\* registered.
C10_LoadRegistersEnabledAndCounts ==
    (last.op = "load_from_config" /\ config.kind = "doc")
    => /\ Range(last.registered) = Registrable
       /\ \A i \in Range(last.registered) : Enabled(config.agents[i])
       /\ last.ret = Len(last.registered)

\* The file cannot be read as a configuration: no path, no file, or not JSON.
Unreadable(file) == file.kind \in {"nopath", "missing", "malformed"}

\* C11: load_from_config with no config path, a missing file or malformed JSON
\* returns 0 and leaves the registry and the mounts as they were.
C11_LoadFailsOpen ==
    [][(last'.op = "load_from_config" /\ Unreadable(config'))
        => /\ last'.ret = 0
           /\ agents' = agents
           /\ mounts' = mounts]_vars

\* A malformed file has just been loaded into a pool that holds an agent.
C11_Witness ==
    /\ last.op = "load_from_config"
    /\ config.kind = "malformed"
    /\ last.ret = 0
    /\ DOMAIN agents # {}
    /\ mounts # <<>>

\* C12: reload_agent of a name that is not registered returns False, imports
\* nothing, mounts nothing and leaves the registry as it was, and
\* POST /reload/{name} answers 404.
C12_ReloadUnknownName ==
    [][(last'.op = "reload_agent" /\ last'.name \notin DOMAIN agents)
        => /\ last'.ret = FALSE
           /\ last'.status = 404
           /\ agents' = agents
           /\ mounts' = mounts
           /\ loaded' = loaded]_vars

\* A reload of an unregistered name has just returned, in a pool that holds
\* another agent.
C12_Witness ==
    /\ last.op = "reload_agent"
    /\ last.name \notin DOMAIN agents
    /\ last.ret = FALSE
    /\ last.status = 404
    /\ DOMAIN agents # {}

\* The names the three listing endpoints show.
Listed(ag) ==
    health(ag).agents \cup {x.name : x \in root(ag).agents}
        \cup {x.name : x \in list_agents(ag).agents}

\* C13: unregister_agent of a registered name returns True and removes the
\* entry, so that no listing endpoint shows the name, and leaves every mount in
\* place, and requests to the entry's mount path are dispatched to the
\* entry's application; of an unregistered name it returns False and changes
\* nothing.  No later step takes a mount away or changes the application that
\* requests to a mounted path are dispatched to.
C13_UnregisterKeepsDispatch ==
    [][ /\ (last'.op = "unregister_agent" /\ last'.name \in DOMAIN agents)
            => /\ last'.ret = TRUE
               /\ DOMAIN agents' = DOMAIN agents \ {last'.name}
               /\ \A n \in DOMAIN agents' : agents'[n] = agents[n]
               /\ last'.name \notin Listed(agents')
               /\ health(agents').agents_count = health(agents).agents_count - 1
               /\ mounts' = mounts
               /\ Dispatch(mounts', agents[last'.name].mount_path) = agents[last'.name].app
        /\ (last'.op = "unregister_agent" /\ last'.name \notin DOMAIN agents)
            => /\ last'.ret = FALSE
               /\ agents' = agents
               /\ mounts' = mounts
        /\ \A i \in DOMAIN mounts : i \in DOMAIN mounts' /\ mounts'[i] = mounts[i]
        /\ \A path \in MountPaths :
              Dispatch(mounts, path) # NoApp => Dispatch(mounts', path) = Dispatch(mounts, path)]_vars

\* unregister_agent(name) followed by register_agent with the entry's module,
\* config and mount path.
RemoveThenRecreate(pool, src, name) ==
    LET agent_info == pool.agents[name]
        removed == unregister_agent(pool, name)
    IN  register_agent(removed.pool, src, name, agent_info.module, agent_info.config,
                       agent_info.mount_path)

\* A registry without the application objects: the names and each entry's
\* module, mount path, config and endpoints.
Described(ag) ==
    [n \in DOMAIN ag |-> [module |-> ag[n].module, mount_path |-> ag[n].mount_path,
                          config |-> ag[n].config, a2a_endpoint |-> ag[n].a2a_endpoint,
                          card_endpoint |-> ag[n].card_endpoint]]

\* C14: reload_agent of a registered name returns the value that
\* unregister_agent followed by register_agent would, and leaves the registry
\* with the names and the entries that sequence would leave (the identity of
\* the application object is left out of the comparison).
C14_ReloadIsRemoveThenRecreate ==
    [][(last'.op = "reload_agent" /\ last'.name \in DOMAIN agents)
        => /\ Described(agents') = Described(RemoveThenRecreate(ThePool, disk, last'.name).pool.agents)
           /\ last'.ret = RemoveThenRecreate(ThePool, disk, last'.name).ret]_vars

\* C15: after reload_agent returned True, the entry of the agent holds the
\* application of the module as re-imported, and requests to the agent's
\* mount path are dispatched to that application.
C15_HotReloadTakesEffect ==
    (last.op = "reload_agent" /\ last.ret = TRUE)
    => LET entry == agents[last.name]
       IN  /\ entry.app = App(entry.module, loaded[entry.module].ver)
           /\ Dispatch(mounts, entry.mount_path) = entry.app

(***************************************************************************)
(* Readers and the calls of the pool.                                      *)
(***************************************************************************)
\* The call in progress, run as a whole from the pool it started in.
WholeCall ==
    CASE task.op = "register_agent" ->
            register_agent(task.before, disk, task.name, task.module, "config", task.mount_path)
      [] task.op = "reload_agent" -> reload_agent(task.before, disk, task.name)
      [] OTHER -> load_from_config(task.before, disk, task.file)

\* The states C16 names: the application of the call in progress is mounted
\* and its entry is not yet recorded, or load_from_config has registered some
\* of the file's agents and has more to go through.
MountedNotRecorded == task.pc = "record" /\ Dispatch(mounts, TaskPath) # NoApp
PartlyLoaded == task.op = "load_from_config" /\ task.pc # "return" /\ task.count > 0
                    /\ task.queue # <<>>
MidCall == MountedNotRecorded \/ PartlyLoaded

Calculated ==
    /\ agent = "calculator"
    /\ PlainEnvelope
    /\ request.method = JStr("calculate")
    /\ "expression" \in DOMAIN request.params.v
    /\ request.params.v["expression"].k = "str"
    /\ request.params.v["expression"].s # ""

\* C17: an expression that refers to a name outside the allow-list fails with
\* a ValueError answered with code -32000, and evaluation never calls anything
\* that is not in the allow-list.
C17_OnlyAllowListEvaluated ==
    Calculated
    => /\ ~(NamesIn(Lex(request.params.v["expression"].s)) \subseteq SafeNames)
            => (effects.exc = "ValueError" /\ ErrorCode(-32000))
       /\ effects.invoked \subseteq SafeNames

\* "<percent>% of <value>" with a number on either side.
NumericPercentForm(toks) ==
    /\ Len(toks) = 4
    /\ toks[1] \in NumberTokens /\ toks[2] = "%" /\ toks[3] = " of " /\ toks[4] \in NumberTokens

\* The expression with `**` written for `^` and `sqrt` for the radical sign.
WrittenOut(toks) == Replace(Replace(toks, "^", "**"), Radical, "sqrt")

\* C18: "<percent>% of <value>" with numeric percent and value is answered with
\* (percent / 100) * value (in hundredths: percent * value) without a call of
\* eval(); and `^` and the radical sign are substituted first, so that any
\* other expression is answered as the expression with `**` and `sqrt` written
\* out is.
C18_PercentPathAndSubstitutions ==
    Calculated
    => LET toks == Lex(request.params.v["expression"].s)
       IN  /\ NumericPercentForm(toks)
                => /\ response.kind = "envelope"
                   /\ response.result.k = "dict"
                   /\ response.result.v.result = TokenValue(toks[1]) * TokenValue(toks[4])
                   /\ ~effects.evaluated
           /\ (~PercentPath(toks) /\ Eval(WrittenOut(toks)).exc = "none")
                => /\ response.kind = "envelope"
                   /\ response.result.k = "dict"
                   /\ response.result.v.result = Eval(WrittenOut(toks)).val

(***************************************************************************)
(* Properties of the currency and weather agents.                          *)
(***************************************************************************)
\* The currency agent answered the method with a result payload.
CurrencyResult(method) ==
    /\ agent = "currency"
    /\ request.kind = "object"
    /\ request.method = JStr(method)
    /\ response.kind = "envelope"
    /\ response.result.k = "dict"

\* The code requested under a key, or the handler's default for it.
Requested(key, default) == GetOr(BodyParams(request).v, key, JStr(default)).s

\* C19: a successful `convert` result has converted_amount = amount * rate for
\* the amount and rate it reports, and the requested codes in upper case; so
\* has every item of a `convert_multiple` result that is not an error.
C19_ConversionSelfConsistent ==
    /\ (CurrencyResult("convert") /\ "converted_amount" \in DOMAIN response.result.v)
        => LET result == response.result.v
           IN  /\ result.converted_amount = result.amount * result.rate
               /\ result.from_currency = Upper(Requested("from_currency", "EUR"))
               /\ result.to_currency = Upper(Requested("to_currency", "USD"))
    /\ (CurrencyResult("convert_multiple") /\ "conversions" \in DOMAIN response.result.v)
        => LET result == response.result.v
               wanted == GetOr(BodyParams(request).v, "to_currencies", JList(<<"USD", "GBP">>)).items
           IN  /\ result.from_currency = Upper(Requested("from_currency", "EUR"))
               /\ DOMAIN result.conversions = DOMAIN wanted
               /\ \A i \in DOMAIN result.conversions :
                     LET item == result.conversions[i]
                     IN  /\ item.to_currency = Upper(wanted[i])
                         /\ "error" \notin DOMAIN item
                              => item.converted_amount = result.amount * item.rate

\* A conversion of 5 units requested in lower case has succeeded.
C19_Witness ==
    /\ CurrencyResult("convert")
    /\ "converted_amount" \in DOMAIN response.result.v
    /\ Requested("from_currency", "EUR") = "eur"
    /\ response.result.v.from_currency = "EUR"
    /\ response.result.v.amount = 5
    /\ response.result.v.converted_amount = 5 * response.result.v.rate

\* The currency or the weather agent has served a request.
UpstreamAgent == agent \in {"currency", "weather"}

\* C20: the currency and the weather agent issue no or one upstream request
\* for an envelope, whatever the number of target currencies, and a request
\* that failed is not issued again.
C20_AtMostOneOutboundRequest ==
    UpstreamAgent
    => /\ effects.outbound \in {0, 1}
       /\ effects.failed => effects.outbound = 1
       /\ (agent = "currency" /\ PlainEnvelope /\ request.method = JStr("convert_multiple")
              /\ "to_currencies" \in DOMAIN request.params.v
              /\ GetOr(request.params.v, "from_currency", JStr("EUR")).k = "str")
            => effects.outbound = 1

\* convert_multiple with two targets has issued its one request, which failed.
C20_Witness ==
    /\ agent = "currency"
    /\ PlainEnvelope
    /\ request.method = JStr("convert_multiple")
    /\ "to_currencies" \in DOMAIN request.params.v
    /\ Len(request.params.v["to_currencies"].items) = 2
    /\ effects.outbound = 1
    /\ effects.failed
    /\ response.kind = "envelope"

\* A2AClient.call on the response `resp`: raise_for_status() raises on a status
\* that is not 2xx, a JSON-RPC error that is not null raises, else the value
\* of result.get("result", {}) is returned.
A2AClient_call(resp) ==
    IF resp.status \notin 200..299
    THEN Raise("Exception", <<"A2A HTTP error">>)
    ELSE IF resp.error.k = "dict"
    THEN Raise("Exception", <<"A2A Error ">> \o resp.error.message)
    ELSE IF resp.result.k = "absent" THEN Ok(EmptyDict)
    ELSE Ok(resp.result)

\* The envelope asks the currency agent for a conversion with a code outside
\* SUPPORTED_CURRENCIES.
UnsupportedCurrency ==
    /\ agent = "currency"
    /\ PlainEnvelope
    /\ LET params == request.params.v
           from == GetOr(params, "from_currency", JStr("EUR"))
           to == GetOr(params, "to_currency", JStr("USD"))
           tos == GetOr(params, "to_currencies", JList(<<"USD", "GBP">>))
       IN  \/ /\ request.method = JStr("convert")
              /\ from.k = "str" /\ to.k = "str"
              /\ {Upper(from.s), Upper(to.s)} \ SUPPORTED_CURRENCIES # {}
           \/ /\ request.method = JStr("convert_multiple")
              /\ from.k = "str" /\ tos.k = "list"
              /\ \/ Upper(from.s) \notin SUPPORTED_CURRENCIES
                 \/ \E i \in DOMAIN tos.items : Upper(tos.items[i]) \notin SUPPORTED_CURRENCIES

\* The envelope asks the weather agent for a city outside CITY_COORDS.
UnknownCity ==
    /\ agent = "weather"
    /\ PlainEnvelope
    /\ request.method = JStr("get_forecast")
    /\ LET city == GetOr(request.params.v, "city", JStr("barcelona"))
       IN  city.k = "str" /\ Lower(city.s) \notin CITY_COORDS

\* The response is 200 with result = {error: message} and no JSON-RPC error,
\* and A2AClient.call returns that payload.
ErrorPayload ==
    /\ response.kind = "envelope"
    /\ response.status = 200
    /\ response.error = NoError
    /\ response.result.k = "dict"
    /\ DOMAIN response.result.v = {"error"}
    /\ A2AClient_call(response) = Ok(response.result)

\* C21: an upstream failure, an unsupported currency and an unknown city are
\* answered with status 200, result = {error: message} and no JSON-RPC error,
\* which A2AClient.call returns to its caller without raising.
C21_FailuresInResultPayload ==
    (UpstreamAgent /\ (effects.failed \/ UnsupportedCurrency \/ UnknownCity)) => ErrorPayload

(***************************************************************************)
(* Properties of the email agent.                                          *)
(***************************************************************************)
\* C22: every email sent was asked a confirmation for, with the same
\* action_data, and approved.
C22_SendsOnlyConfirmed ==
    \A i \in DOMAIN outbox : outbox[i] \in pending /\ outbox[i] \in approved

\* The email agent has served a send_email envelope that passed validation.
SendEmailServed ==
    /\ agent = "email"
    /\ A2ARequestValid(request)
    /\ request.method = JStr("send_email")

\* The parameter is a string that is not empty; it is missing or empty.
NonEmpty(key) ==
    /\ key \in DOMAIN request.params.v
    /\ request.params.v[key].k = "str"
    /\ request.params.v[key].s # ""
MissingOrEmpty(key) ==
    \/ key \notin DOMAIN request.params.v
    \/ request.params.v[key] \in {JStr(""), JNull}

\* C24: send_email never sends.  With to, subject and body given and not empty
\* it answers "hitl_required" with action_type "send_email" and the request's
\* to, subject, body, cc and bcc as action_data (cc and bcc empty lists when
\* not given); with one of the three missing or empty it answers error -32602
\* and no confirmation marker.
C24_SendEmailAsksConfirmation ==
    SendEmailServed
    => /\ ~effects.sent
       /\ (\A key \in {"to", "subject", "body"} : NonEmpty(key))
            => /\ HitlRequired(response)
               /\ response.error = NullError
               /\ response.result.v.action_type = "send_email"
               /\ response.result.v.action_data =
                      [to |-> request.params.v["to"],
                       subject |-> request.params.v["subject"],
                       body |-> request.params.v["body"],
                       cc |-> GetOr(request.params.v, "cc", JList(<<>>)),
                       bcc |-> GetOr(request.params.v, "bcc", JList(<<>>))]
       /\ (\E key \in {"to", "subject", "body"} : MissingOrEmpty(key))
            => /\ ErrorCode(-32602)
               /\ ~HitlRequired(response)

\* A send_email with a cc list has been answered with the confirmation request.
C24_Witness ==
    /\ SendEmailServed
    /\ \A key \in {"to", "subject", "body"} : NonEmpty(key)
    /\ "cc" \in DOMAIN request.params.v
    /\ HitlRequired(response)
    /\ response.result.v.action_data.cc = JList(<<"c@x">>)
    /\ response.result.v.action_data.bcc = JList(<<>>)
    /\ ~effects.sent

(***************************************************************************)
(* Properties of the client and of the demos.                              *)
(***************************************************************************)
\* Two different calls of the same launch.
LaunchedTogether(i, j) == i # j /\ calls[i].batch = calls[j].batch

\* The variables a call has read or written.
Touched(i) == calls[i].reads \cup calls[i].writes

\* C23 as stated: no two calls launched together read or write the same
\* variable.
C23_NoSharedState ==
    \A i, j \in DOMAIN calls : LaunchedTogether(i, j) => Touched(i) \cap Touched(j) = {}

\* Both calls have started: each has run to its first suspension or further.
BothStarted(i, j) == calls[i].pc # "created" /\ calls[j].pc # "created"

\* The three attributes of a client.
AttributesOf(client) == {CounterOf(client), EndpointOf(client), TimeoutOf(client)}

\* C23: calls launched together on different clients touch no common
\* variable.  Calls launched together on one client share its state: once
\* both have started, each has read its _request_id, agent_endpoint and
\* timeout, and each has assigned its _request_id, which is the one variable
\* any call assigns; the ids the two took from the shared counter differ.
C23_SharedOnlyClientCounter ==
    /\ \A i \in DOMAIN calls :
          /\ calls[i].writes \subseteq {CounterOf(calls[i].client)}
          /\ calls[i].reads \subseteq AttributesOf(calls[i].client)
          /\ calls[i].pc # "created"
                => /\ calls[i].writes = {CounterOf(calls[i].client)}
                   /\ calls[i].reads = AttributesOf(calls[i].client)
    /\ \A i, j \in DOMAIN calls :
          LaunchedTogether(i, j)
          => /\ calls[i].client # calls[j].client => Touched(i) \cap Touched(j) = {}
             /\ (calls[i].client = calls[j].client /\ BothStarted(i, j))
                   => /\ Touched(i) \cap Touched(j) = AttributesOf(calls[i].client)
                      /\ calls[i].writes \cap Touched(j) = {CounterOf(calls[i].client)}
                      /\ calls[i].request_id # calls[j].request_id

\* Two calls launched together on one client are both suspended in their post:
\* each has read the client's three attributes and taken an id from its
\* counter.
C23_Witness ==
    \E i, j \in DOMAIN calls :
        /\ LaunchedTogether(i, j)
        /\ calls[i].client = calls[j].client
        /\ calls[i].pc = "built" /\ calls[j].pc = "built"
        /\ TimeoutOf(calls[i].client) \in calls[i].reads \cap calls[j].reads
        /\ calls[i].writes \cap calls[j].writes = {CounterOf(calls[i].client)}
        /\ calls[i].request_id # calls[j].request_id

\* The ids `client` has put on the wire, in the order they were posted.
IdsOf(client) ==
    LET posted == SelectSeq(wire, LAMBDA r : r.client = client)
    IN  [i \in DOMAIN posted |-> posted[i].id]

\* The calls of `client` that have started, in call order.
StartedCalls(client) == SelectSeq(calls, LAMBDA c : c.client = client /\ c.pc # "created")

\* C26: the calls of a client take the ids 1, 2, 3, ... in call order, no two
\* requests it posts carry the same id, and a call that raised has consumed
\* the id it took.
C26_RequestIdsInCallOrder ==
    \A client \in Clients :
        /\ Len(StartedCalls(client)) = counter[client]
        /\ \A i \in DOMAIN StartedCalls(client) : StartedCalls(client)[i].request_id = i
        /\ \A i, j \in DOMAIN IdsOf(client) : i # j => IdsOf(client)[i] # IdsOf(client)[j]
        /\ \A i \in DOMAIN IdsOf(client) : IdsOf(client)[i] \in 1..counter[client]

\* Three calls launched together on one client took 1, 2 and 3; the third was
\* posted first and returned, the second raised, the first is still waiting.
C26_Witness ==
    /\ Len(calls) >= 3
    /\ \A i \in 1..3 : calls[i].client = "weather_client" /\ calls[i].batch = 1
    /\ calls[1].pc = "posted"
    /\ calls[2].pc = "raised"
    /\ calls[3].pc = "returned"
    /\ calls[3].request_id = 3
    /\ IdsOf("weather_client") = <<3, 1>>
    /\ counter["weather_client"] = 3

(***************************************************************************)
(* Properties of the pool's aggregate endpoints and of its mounts.         *)
(***************************************************************************)
\* What /, /health and /agents answer is the registry: the counts are the
\* number of entries and of items listed, and every entry is listed under its
\* name with the endpoints of its mount path.
Projection ==
    /\ health(agents).agents_count = Cardinality(DOMAIN agents)
    /\ health(agents).agents_count = Cardinality(health(agents).agents)
    /\ root(agents).agents_count = Cardinality(DOMAIN agents)
    /\ root(agents).agents_count = Cardinality(root(agents).agents)
    /\ {x.name : x \in root(agents).agents} = DOMAIN agents
    /\ {x.name : x \in list_agents(agents).agents} = DOMAIN agents
    /\ Cardinality(list_agents(agents).agents) = Cardinality(DOMAIN agents)
    /\ \A x \in list_agents(agents).agents :
          /\ x.endpoints.a2a = Endpoint(agents[x.name].mount_path, "/a2a")
          /\ x.endpoints.card = Endpoint(agents[x.name].mount_path, "/")

\* C25: in every state /, /health and /agents project the registry, and a
\* step in which one of them runs leaves the registry and the mounts as they
\* were.
C25_AggregatesProjectRegistry ==
    /\ []Projection
    /\ [][observed' # observed => (agents' = agents /\ mounts' = mounts)]_vars

\* /agents has run on a registry of two agents.
C25_Witness ==
    /\ observed.seen
    /\ observed.reader = "list_agents"
    /\ Cardinality(DOMAIN agents) = 2
    /\ Cardinality(list_agents(agents).agents) = 2

\* The paths that have a mounted application.
MountedPaths(mo) == {mo[i].path : i \in DOMAIN mo}

\* Every registry entry's application is mounted at the entry's mount path.
EntriesMounted ==
    \A n \in DOMAIN agents :
        /\ agents[n].mount_path \in MountedPaths(mounts)
        /\ \E i \in DOMAIN mounts :
              mounts[i] = [path |-> agents[n].mount_path, app |-> agents[n].app]

\* C27: after any sequence of register_agent, unregister_agent, reload_agent
\* and load_from_config calls every entry's mount path has a mounted
\* application, and no call removes a path from the mounted ones.
C27_EntriesMountedMountsGrow ==
    /\ []EntriesMounted
    /\ [][MountedPaths(mounts) \subseteq MountedPaths(mounts')]_vars

\* An agent has been unregistered while another is registered: both paths are
\* still mounted.
C27_Witness ==
    /\ last.op = "unregister_agent"
    /\ last.ret = TRUE
    /\ Cardinality(DOMAIN agents) = 1
    /\ Cardinality(MountedPaths(mounts)) = 2
    /\ EntriesMounted

(***************************************************************************)
(* Properties of the configuration loader.                                 *)
(***************************************************************************)
\* C28: load_from_config returns the number of register_agent calls that
\* succeeded during the call, also when an entry without name or module_path
\* ends it early: it returns 0 only if it registered nothing.
C28_LoadCountsRegistrations ==
    last.op = "load_from_config"
    => /\ last.ret = Len(last.registered)
       /\ last.ret = 0 => last.registered = <<>>

\* C29: after POST /reload the registered names are those of the enabled
\* entries of the current configuration that registered, so that an agent
\* taken out of the file or disabled is no longer listed; without a
\* configured path the answer is 400 and nothing changes.  Stated for a
\* configuration file that can be read.
C29_ReloadAlignsRegistry ==
    [][last'.op = "reload_config"
        => IF config'.kind = "nopath"
           THEN last'.status = 400 /\ agents' = agents /\ mounts' = mounts
           ELSE config'.kind = "doc"
                => /\ last'.status = 200
                   /\ DOMAIN agents' = {config'.agents[i].name : i \in Range(last'.registered)}
                   /\ last'.agents = DOMAIN agents']_vars

(***************************************************************************)
(* Properties of the currency agent's validation.                          *)
(***************************************************************************)
\* The envelope asks for a conversion from (for `convert`, also to) a code
\* outside SUPPORTED_CURRENCIES.
UnsupportedCode ==
    /\ agent = "currency"
    /\ PlainEnvelope
    /\ LET from == GetOr(request.params.v, "from_currency", JStr("EUR"))
           to == GetOr(request.params.v, "to_currency", JStr("USD"))
           tos == GetOr(request.params.v, "to_currencies", JList(<<"USD", "GBP">>))
       IN  \/ /\ request.method = JStr("convert")
              /\ from.k = "str" /\ to.k = "str"
              /\ {Upper(from.s), Upper(to.s)} \ SUPPORTED_CURRENCIES # {}
           \/ /\ request.method = JStr("convert_multiple")
              /\ from.k = "str" /\ tos.k = "list"
              /\ Upper(from.s) \notin SUPPORTED_CURRENCIES

\* C30: a conversion from a currency outside SUPPORTED_CURRENCIES (for
\* `convert`, also to one) is answered with an error payload and issues no
\* outbound request.
C30_RequestsOnlySupportedBase ==
    UnsupportedCode
    => /\ effects.outbound = 0
       /\ response.kind = "envelope"
       /\ response.result.k = "dict"
       /\ "error" \in DOMAIN response.result.v

====
